---- MODULE Spec2Model ----
(***************************************************************************)
(* ESO Price Tracker (src/main.py): the alert store (Database), the        *)
(* periodic price check (Bot.job_check_prices), the chat handlers that     *)
(* create, delete and manually check alerts, and the scraping client       *)
(* (TTC.fetch_price) of src/main.py and of src/create_state.py.            *)
(*                                                                         *)
(* The bot runs on one asyncio event loop: code between two awaits is      *)
(* atomic, so every action below is one stretch of a coroutine from the    *)
(* return of one await to the next await.  The scheduler job and the chat  *)
(* handlers interleave at those awaits.  Chat updates are handled one at a *)
(* time (Application.builder() without concurrent updates) and the         *)
(* repeating job never overlaps with itself (one job instance).            *)
(***************************************************************************)
EXTENDS Integers, Sequences, FiniteSets, TLC

VARIABLES
    alerts,     \* the alerts table: alerts[id] is the row with that id
    clock,      \* time.time() in seconds
    nextRun,    \* next fire time of the repeating job
    jobPc,      \* job_check_prices: "idle", "sleep", "fetch", "send_captcha", "send_deal"
    arr,        \* job_check_prices: the rows returned by all_active()
    jobIdx,     \* job_check_prices: position in arr (0 when idle)
    jobRes,     \* job_check_prices: res.price of the fetch just evaluated
    hPc,        \* chat handler: "idle", "cn_fetch" (cmd_checknow), "cb_fetch" (on_cb check_)
    hUser,      \* chat handler: the requesting user
    hList,      \* chat handler: the rows it iterates over
    hIdx,       \* chat handler: position in hList
    fetch,      \* TTC: the engine it keeps and the call of fetch_price in progress
    parse,      \* TTC._parse_price: the text of a price cell and what is made of it
    request,    \* TTC.fetch_price: the item name of a call and the URL built for it
    engine,     \* TTC.init: the calls in progress and what they have started
    ev,         \* history: what the last step did, when a property looks at it
    notified,   \* history: per alert, the prices of the deal notifications the job delivered
    fetched,    \* history: per alert, start time and outcome of the job's last fetch
    manual,     \* history: the alerts a manual check stored a price for since the last cycle began
    failed      \* history: the alerts whose fetch by the job failed since the last cycle began

vars == <<alerts, clock, nextRun, jobPc, arr, jobIdx, jobRes,
          hPc, hUser, hList, hIdx, fetch, parse, request, engine,
          ev, notified, fetched, manual, failed>>

jobVars == <<jobPc, arr, jobIdx, jobRes>>
hVars == <<hPc, hUser, hList, hIdx>>

-----------------------------------------------------------------------------
(* Program constants *)

CHECK_INTERVAL == 300
ALERT_COOLDOWN == 600
COOLDOWN == ALERT_COOLDOWN
FIRST == 30
MAX_USER_ALERTS == 15

(* Bounds of the model *)
MaxTail == 2
\* the longest price text of which every variation is read
MaxText == 4
\* the drivers and the browsers that are started at most
MaxEngines == 3
\* the largest leading part of an amount of gold that is formatted
MaxGold == 12
\* the longest item name for which a URL is built
MaxName == 4
\* the prices the methods of Database are called with: 1 .. DbPrice
DbPrice == 2

StartTime == 1700000000
MaxTicks == 3
PairTicks == 1
CycleTicks == 2
MaxPrice == 3
MaxAlerts == 2
InitThreshold == 2
CapPrefill == 14

-----------------------------------------------------------------------------
(* Optional values: Python None / SQL NULL is the empty sequence. *)

None == <<>>
Some(x) == <<x>>
Val(o) == o[1]

\* the clock moves in steps of one check interval
TickLen == CHECK_INTERVAL

Users == {1, 2}
Prices == 1 .. MaxPrice

-----------------------------------------------------------------------------
(* Text: a string is a sequence of one-character strings. *)

Digits == <<"0", "1", "2", "3", "4", "5", "6", "7", "8", "9">>
IsDigit(c) == \E i \in 1 .. 10 : Digits[i] = c
DigitVal(c) == (CHOOSE i \in 1 .. 10 : Digits[i] = c) - 1

\* str.lower() on the letters the model uses
LowerChar(c) ==
    CASE c = "K" -> "k"
      [] c = "U" -> "u"
      [] c = "I" -> "i"
      [] c = "A" -> "a"
      [] OTHER -> c

lower(s) == [i \in 1 .. Len(s) |-> LowerChar(s[i])]

\* str.replace(ch, "")
RECURSIVE Remove(_, _)
Remove(s, ch) ==
    IF s = <<>> THEN <<>>
    ELSE IF Head(s) = ch THEN Remove(Tail(s), ch)
    ELSE <<Head(s)>> \o Remove(Tail(s), ch)

RECURSIVE DigitsToNat(_, _)
DigitsToNat(s, acc) ==
    IF s = <<>> THEN acc ELSE DigitsToNat(Tail(s), 10 * acc + DigitVal(Head(s)))

\* int(s) for a string without spaces: an optional sign and one or more digits,
\* anything else raises ValueError (None here).
int(s) ==
    LET signed == s /= <<>> /\ Head(s) \in {"-", "+"}
        body == IF signed THEN Tail(s) ELSE s
    IN  IF body = <<>> \/ \E i \in 1 .. Len(body) : ~IsDigit(body[i]) THEN None
        ELSE IF signed /\ Head(s) = "-" THEN Some(0 - DigitsToNat(body, 0))
        ELSE Some(DigitsToNat(body, 0))

\* int(str(price).replace(".", "").replace(",", ""))
ParseThreshold(tok) == int(Remove(Remove(tok, "."), ","))

\* the price group of on_message's pattern: ([0-9\.\,]+)$
MatchesPriceGroup(tok) ==
    tok /= <<>> /\ \A i \in 1 .. Len(tok) : IsDigit(tok[i]) \/ tok[i] \in {".", ","}

-----------------------------------------------------------------------------
(* Database *)

\* INSERT INTO alerts (user_id, username, item_name, threshold_price): the other
\* columns take their defaults, the id is the next rowid (AUTOINCREMENT).
add(db, user_id, item, price, now) ==
    Append(db, [user_id |-> user_id, item_name |-> item, threshold_price |-> price,
                current_price |-> 0, last_check |-> 0, is_active |-> 1,
                created_at |-> now,
                last_notified_price |-> None, last_notified_at |-> 0])

\* the ids of the rows list_user selects: WHERE user_id=? AND is_active=1
list_user(db, user_id) ==
    {i \in DOMAIN db : db[i].user_id = user_id /\ db[i].is_active = 1}

\* a row as list_user returns it
UserRow(db, i) ==
    [id |-> i, item_name |-> db[i].item_name, threshold_price |-> db[i].threshold_price]

\* the orders in which list_user may return its rows: ORDER BY created_at DESC
\* (rows created in the same second come in either order)
ListUserOrders(db, user_id) ==
    LET ids == list_user(db, user_id)
        n == Cardinality(ids)
    IN  {s \in [1 .. n -> ids] :
            /\ \A i, j \in 1 .. n : i /= j => s[i] /= s[j]
            /\ \A i, j \in 1 .. n : i < j => db[s[i]].created_at >= db[s[j]].created_at}

\* a row as all_active returns it
ActiveRow(db, i) ==
    [id |-> i, user_id |-> db[i].user_id, item_name |-> db[i].item_name,
     threshold_price |-> db[i].threshold_price, last_check |-> db[i].last_check,
     last_notified_price |-> db[i].last_notified_price]

\* SELECT ... FROM alerts WHERE is_active=1, in rowid order
RECURSIVE ActiveFrom(_, _)
ActiveFrom(db, i) ==
    IF i > Len(db) THEN <<>>
    ELSE IF db[i].is_active = 1 THEN <<ActiveRow(db, i)>> \o ActiveFrom(db, i + 1)
    ELSE ActiveFrom(db, i + 1)

all_active(db) == ActiveFrom(db, 1)

\* variant of set_price with AND is_active=1
set_price_active_only(db, alert_id, price, now) ==
    IF alert_id \in DOMAIN db /\ db[alert_id].is_active = 1
    THEN [db EXCEPT ![alert_id].current_price = price, ![alert_id].last_check = now]
    ELSE db

\* UPDATE alerts SET current_price=?, last_check=? WHERE id=?
set_price(db, alert_id, price, now) ==
    IF alert_id \in DOMAIN db
    THEN [db EXCEPT ![alert_id].current_price = price, ![alert_id].last_check = now]
    ELSE db

\* variant of set_notified that leaves last_notified_at alone
set_notified_keep_time(db, alert_id, price, now) ==
    IF alert_id \in DOMAIN db
    THEN [db EXCEPT ![alert_id].last_notified_price = Some(price)]
    ELSE db

\* UPDATE alerts SET last_notified_price=?, last_notified_at=? WHERE id=?
set_notified(db, alert_id, price, now) ==
    IF alert_id \in DOMAIN db
    THEN [db EXCEPT ![alert_id].last_notified_price = Some(price),
                    ![alert_id].last_notified_at = now]
    ELSE db

\* variant of deactivate_rows without AND user_id=?
deactivate_any_owner(db, alert_id, user_id) == {i \in DOMAIN db : i = alert_id}

\* the rows UPDATE ... WHERE id=? AND user_id=? matches
deactivate_rows(db, alert_id, user_id) ==
    {i \in DOMAIN db : i = alert_id /\ db[i].user_id = user_id}

\* variant of deactivate that deletes the row
deactivate_deletes(db, alert_id, user_id) ==
    IF deactivate_rows(db, alert_id, user_id) /= {}
    THEN SubSeq(db, 1, alert_id - 1) \o SubSeq(db, alert_id + 1, Len(db))
    ELSE db

\* the table after deactivate; it returns cur.rowcount > 0
deactivate(db, alert_id, user_id) ==
    IF deactivate_rows(db, alert_id, user_id) /= {}
    THEN [db EXCEPT ![alert_id].is_active = 0]
    ELSE db

deactivate_ok(db, alert_id, user_id) == deactivate_rows(db, alert_id, user_id) /= {}

-----------------------------------------------------------------------------
(* TTC.fetch_price, seen from its callers: the PriceResult it returns.       *)
(* price is set only together with source "listing"; "fallback" is a page   *)
(* without a parsable row, "captcha" a visible challenge, "error" a failure  *)
(* inside the try block.  "raise" stands for an exception that leaves        *)
(* fetch_price (self.init() runs before the try block).                      *)

PriceResult(source, price) == [source |-> source, price |-> price]

\* variant of FetchResults where a failed fetch may still carry a price
FetchResults_failure_priced ==
    {PriceResult(s, Some(p)) : s \in {"listing", "error"}, p \in Prices}
        \cup {PriceResult(s, None) : s \in {"fallback", "captcha", "error", "raise"}}

FetchResults ==
    {PriceResult("listing", Some(p)) : p \in Prices}
        \cup {PriceResult(s, None) : s \in {"fallback", "captcha", "error", "raise"}}

(***************************************************************************)
(* TTC._parse_price (main.py:232-275): the text of a price cell to a       *)
(* price, or None.                                                         *)
(***************************************************************************)

\* the whitespace characters of the model: str.strip(), int(), float() and
\* the class \s of the pattern all take each of them for whitespace
Whitespace == {" ", "\t", "\n"}
IsSpace(c) == c \in Whitespace

RECURSIVE lstrip(_)
lstrip(s) == IF s /= <<>> /\ IsSpace(Head(s)) THEN lstrip(Tail(s)) ELSE s

RECURSIVE rstrip(_)
rstrip(s) ==
    IF s /= <<>> /\ IsSpace(s[Len(s)]) THEN rstrip(SubSeq(s, 1, Len(s) - 1))
    ELSE s

\* str.strip()
strip(s) == rstrip(lstrip(s))

\* s.split(ch): the pieces between the occurrences of ch, cur being the piece
\* under construction
RECURSIVE split(_, _, _)
split(s, ch, cur) ==
    IF s = <<>> THEN <<cur>>
    ELSE IF Head(s) = ch THEN <<cur>> \o split(Tail(s), ch, <<>>)
    ELSE split(Tail(s), ch, Append(cur, Head(s)))

\* s.count(ch)
Count(s, ch) == Cardinality({i \in 1 .. Len(s) : s[i] = ch})

\* s.replace(a, b) for single characters
Replace(s, a, b) == [i \in 1 .. Len(s) |-> IF s[i] = a THEN b ELSE s[i]]

\* lines = [line.strip() for line in price_text.strip().split('\n')
\*          if line.strip()]
lines(price_text) ==
    LET segs == split(strip(price_text), "\n", <<>>)
        stripped == [i \in 1 .. Len(segs) |-> strip(segs[i])]
    IN  SelectSeq(stripped, LAMBDA l : l /= <<>>)

\* re.sub(r'[^\d\.,\s]', '', unit_price_line).replace(' ', ''): whitespace
\* passes the pattern, and of the whitespace only the space is removed after
clean_text(unit_price_line) ==
    Remove(SelectSeq(unit_price_line,
                     LAMBDA c : IsDigit(c) \/ c \in {".", ","} \/ IsSpace(c)),
           " ")

\* int(s) of a string that may carry whitespace around the number
int_ws(s) == int(strip(s))

\* int(float(s)): digits with at most one point and at least one digit,
\* whitespace around allowed; the value is cut to what stands before the point
int_float(s) ==
    LET t == strip(s)
        parts == split(t, ".", <<>>)
    IN  IF \/ \E i \in 1 .. Len(t) : ~(IsDigit(t[i]) \/ t[i] = ".")
           \/ Count(t, ".") > 1
           \/ \A i \in 1 .. Len(t) : ~IsDigit(t[i])
        THEN None
        ELSE Some(DigitsToNat(parts[1], 0))

\* variant of single_dot that reads every single '.' as a decimal point
single_dot_decimal(clean) == int_float(clean)

\* the branch of a single '.' and no ',' (main.py:251-258)
single_dot(clean) ==
    LET parts == split(clean, ".", <<>>)
    IN  IF Len(parts[2]) = 3 THEN int_ws(Remove(clean, "."))
        ELSE int_float(clean)

\* main.py:249-272: the number read from the cleaned line, None where the
\* conversion raises
candidate(clean) ==
    LET dot == Count(clean, ".") > 0
        comma == Count(clean, ",") > 0
    IN  IF dot /\ ~comma
        THEN IF Count(clean, ".") = 1 THEN single_dot(clean)
             ELSE int_ws(Remove(clean, "."))
        ELSE IF comma /\ ~dot THEN int_ws(Remove(clean, ","))
        ELSE IF comma /\ dot
        THEN int_float(Replace(Remove(clean, "."), ",", "."))
        ELSE int_ws(clean)

\* the price once a number was read (main.py:274): positive or nothing
positive(v) == IF v /= None /\ Val(v) > 0 THEN v ELSE None

\* variant: the last line is read instead of the first
parse_price_last_line(price_text) ==
    IF price_text = <<>> THEN None
    ELSE LET ls == lines(price_text)
         IN  IF ls = <<>> THEN None
             ELSE LET clean == clean_text(ls[Len(ls)])
                  IN  IF clean = <<>> THEN None
                      ELSE positive(candidate(clean))

\* variant: the number is returned whatever its sign
parse_price_any_number(price_text) ==
    IF price_text = <<>> THEN None
    ELSE LET ls == lines(price_text)
         IN  IF ls = <<>> THEN None
             ELSE LET clean == clean_text(ls[1])
                  IN  IF clean = <<>> THEN None
                      ELSE candidate(clean)

parse_price(price_text) ==
    IF price_text = <<>> THEN None
    ELSE LET ls == lines(price_text)
         IN  IF ls = <<>> THEN None
             ELSE LET clean == clean_text(ls[1])
                  IN  IF clean = <<>> THEN None
                      ELSE positive(candidate(clean))

(***************************************************************************)
(* TTC.resolve_item_id and the URL of fetch_price (main.py:228-230,        *)
(* 308-319).                                                               *)
(***************************************************************************)

\* self.item_index: the map written by build_index.py, lower-cased names to
\* the ids of the price table
item_index == (<<"k", "u">> :> 1) @@ (<<"k", " ", "u">> :> 2)

\* re.sub(r'\s+', ' ', s): every run of whitespace becomes one space
RECURSIVE collapse(_)
collapse(s) ==
    IF s = <<>> THEN <<>>
    ELSE IF IsSpace(Head(s))
    THEN <<" ">> \o collapse(lstrip(s))
    ELSE <<Head(s)>> \o collapse(Tail(s))

\* self.item_index.get(key)
get(index, key) == IF key \in DOMAIN index THEN Some(index[key]) ELSE None

\* variant of resolve_item_id without the re.sub
resolve_item_id_no_collapse(item_name) == get(item_index, lower(strip(item_name)))

\* key = re.sub(r'\s+', ' ', item_name).strip().lower()
resolve_item_id(item_name) == get(item_index, lower(strip(collapse(item_name))))

\* urllib.parse.quote on the characters the model uses
quote_char(c) ==
    CASE c = " "  -> <<"%", "2", "0">>
      [] c = "\t" -> <<"%", "0", "9">>
      [] OTHER    -> <<c>>

RECURSIVE quote(_)
quote(s) == IF s = <<>> THEN <<>> ELSE quote_char(Head(s)) \o quote(Tail(s))

\* one key=value of the query string
Param(key, value) == [key |-> key, value |-> value]

\* params, with ItemID inserted in front when item_id is set; the URL is
\* base_url followed by the params joined with "&"
params(item_name, item_id) ==
    LET fixed == <<Param("ItemNamePattern", quote(item_name)),
                   Param("TradeType", "Sell"),
                   Param("SortBy", "Price"),
                   Param("Order", "asc"),
                   Param("lang", "en-US")>>
    IN  IF item_id /= None
        THEN <<Param("ItemID", Val(item_id))>> \o fixed
        ELSE fixed

\* no URL is being built
RequestIdle == [item_name |-> <<>>, done |-> FALSE, item_id |-> None, url |-> <<>>]

(***************************************************************************)
(* TTC.init (main.py:210-218) under its two callers that can overlap: the  *)
(* scheduler job and the chat handler in progress.  engine.playwright and  *)
(* engine.browser are self.playwright and self.browser (0: None, else the  *)
(* number of the driver or browser they refer to); engine.pc is the        *)
(* position of each caller in init; engine.drivers and engine.browsers     *)
(* count what was started, none of which is ever stopped (shutdown has no  *)
(* caller); engine.context is the browser each caller has its context on,  *)
(* engine.on the driver each caller is launching a browser on, and         *)
(* engine.via[b] the driver browser b runs on.                             *)
(***************************************************************************)

\* the callers of fetch_price that run as separate tasks
Tasks == {"job", "handler"}

\* init from "if not self.browser" on: launch is awaited, on the driver
\* self.playwright refers to at that moment, or init returns
AfterDriver(e, t) ==
    IF e.browser = 0 THEN [e EXCEPT !.pc[t] = "launch", !.on[t] = e.playwright]
    ELSE [e EXCEPT !.pc[t] = "done"]

\* a caller enters init: "if not self.playwright", up to the first await
init_enter(t) ==
    /\ engine.pc[t] = "idle"
    /\ engine' = IF engine.playwright = 0
                 THEN [engine EXCEPT !.pc[t] = "start"]
                 ELSE AfterDriver(engine, t)

\* async_playwright().start() returns (ok) and self.playwright is assigned,
\* or it raises and init is left
init_started(t, ok) ==
    /\ engine.pc[t] = "start"
    /\ ok => engine.drivers < MaxEngines
    /\ engine' = IF ok
                 THEN AfterDriver([engine EXCEPT !.drivers = @ + 1,
                                                 !.playwright = engine.drivers + 1], t)
                 ELSE [engine EXCEPT !.pc[t] = "idle"]

\* chromium.launch returns (ok) and self.browser is assigned, or it raises
init_launched(t, ok) ==
    /\ engine.pc[t] = "launch"
    /\ ok => engine.browsers < MaxEngines
    /\ engine' = IF ok
                 THEN [engine EXCEPT !.browsers = @ + 1,
                                     !.browser = engine.browsers + 1,
                                     !.via = Append(@, engine.on[t]),
                                     !.on[t] = 0,
                                     !.pc[t] = "done"]
                 ELSE [engine EXCEPT !.pc[t] = "idle", !.on[t] = 0]

\* init has returned: fetch_price opens its context on self.browser as it
\* is now (main.py:327), and works on it across further awaits
init_return(t) ==
    /\ engine.pc[t] = "done"
    /\ engine' = [engine EXCEPT !.pc[t] = "context", !.context[t] = engine.browser]

\* fetch_price closes its context and returns; the caller may call it again
fetch_price_return(t) ==
    /\ engine.pc[t] = "context"
    /\ engine' = [engine EXCEPT !.pc[t] = "idle", !.context[t] = 0]

\* TTC as constructed: self.playwright = None, self.browser = None, no call
\* of init in progress, nothing started
EngineIdle ==
    [playwright |-> 0, browser |-> 0, pc |-> [t \in Tasks |-> "idle"],
     context |-> [t \in Tasks |-> 0], on |-> [t \in Tasks |-> 0],
     via |-> <<>>, drivers |-> 0, browsers |-> 0]

\* no price cell is being read
ParseIdle == [text |-> <<>>, done |-> FALSE, out |-> None]

\* TTC as constructed: no engine, no call of fetch_price in progress
FetchIdle ==
    [pc |-> "idle", headless |-> TRUE, playwright |-> FALSE, browser |-> "none",
     context |-> "none", page |-> "none", challenge |-> FALSE, visible |-> FALSE,
     polls |-> 0, waited |-> 0, artifact |-> FALSE, rows |-> <<>>, res |-> None]

-----------------------------------------------------------------------------
(* Bot.job_check_prices *)

\* variant of InCooldown without the test
InCooldown_never(a, now) == FALSE

\* time.time() - last < self.COOLDOWN
InCooldown(a, now) == now - a.last_check < COOLDOWN

\* the first row at or after position i that is not skipped by the cooldown test
RECURSIVE NextDue(_, _, _)
NextDue(rows, i, now) ==
    IF i > Len(rows) THEN i
    ELSE IF InCooldown(rows[i], now) THEN NextDue(rows, i + 1, now)
    ELSE i

\* variant of AtOrBelowThreshold with < for <=
AtOrBelowThreshold_strict(a, price) == price < a.threshold_price

\* variant of AtOrBelowThreshold that lets every price through
AtOrBelowThreshold_any(a, price) == TRUE

\* res.price <= a["threshold_price"]
AtOrBelowThreshold(a, price) == price <= a.threshold_price

\* variant of should_notify with <= for <
should_notify_le(a, price) ==
    a.last_notified_price = None \/ price <= Val(a.last_notified_price)

\* variant of should_notify without the comparison
should_notify_always(a, price) == TRUE

\* should_notify = (last_notified_price is None) or (res.price < last_notified_price)
should_notify(a, price) ==
    a.last_notified_price = None \/ price < Val(a.last_notified_price)

\* whether the loop body sends the deal message for row a and result res
Notifies(a, res) ==
    /\ res.source \notin {"raise", "captcha"}
    /\ res.price /= None
    /\ AtOrBelowThreshold(a, Val(res.price))
    /\ should_notify(a, Val(res.price))

\* the next fire time of the repeating job after a run at time now
NextFire(fire, now) ==
    LET late == IF now > fire THEN now - fire ELSE 0
    IN  fire + ((late \div CHECK_INTERVAL) + 1) * CHECK_INTERVAL

\* variant of JobContinue that takes up the row just processed again when
\* it is not in cooldown
JobContinue_same_row(rows, i) ==
    LET j == NextDue(rows, IF i > 1 THEN i - 1 ELSE i, clock)
    IN  IF j <= Len(rows)
        THEN /\ jobPc' = "sleep"
             /\ arr' = rows
             /\ jobIdx' = j
        ELSE /\ jobPc' = "idle"
             /\ arr' = <<>>
             /\ jobIdx' = 0

\* the loop goes on with the rows after position i: it skips the rows in
\* cooldown and sleeps before the fetch of the first row that is due
JobContinue(rows, i) ==
    LET j == NextDue(rows, i, clock)
    IN  IF j <= Len(rows)
        THEN /\ jobPc' = "sleep"
             /\ arr' = rows
             /\ jobIdx' = j
        ELSE /\ jobPc' = "idle"
             /\ arr' = <<>>
             /\ jobIdx' = 0

\* the job fires: arr = self.db.all_active(), then the loop up to its first await
JobStart ==
    /\ jobPc = "idle"
    /\ clock >= nextRun
    /\ nextRun' = NextFire(nextRun, clock)
    /\ JobContinue(all_active(alerts), 1)
    /\ jobRes' = None
    /\ UNCHANGED <<alerts, clock, hVars>>

\* asyncio.sleep returns, fetch_price is called
JobFetchStart ==
    /\ jobPc = "sleep"
    /\ jobPc' = "fetch"
    /\ UNCHANGED <<alerts, clock, nextRun, arr, jobIdx, jobRes, hVars>>

\* variant of JobFetchDone that records the time of every fetch attempt in last_check
JobFetchDone_marks_attempt(res) ==
    /\ jobPc = "fetch"
    /\ LET a == arr[jobIdx]
       IN  /\ alerts' = IF res.source \notin {"raise", "captcha"} /\ res.price /= None
                        THEN set_price(alerts, a.id, Val(res.price), clock)
                        ELSE [alerts EXCEPT ![a.id].last_check = clock]
           /\ jobRes' = IF Notifies(a, res) THEN res.price ELSE None
           /\ IF res.source = "captcha"
              THEN /\ jobPc' = "send_captcha"
                   /\ UNCHANGED <<arr, jobIdx>>
              ELSE IF Notifies(a, res)
              THEN /\ jobPc' = "send_deal"
                   /\ UNCHANGED <<arr, jobIdx>>
              ELSE JobContinue(arr, jobIdx + 1)
    /\ UNCHANGED <<clock, nextRun, hVars>>

\* fetch_price returns res (or raises): the rest of the loop body up to the next await
JobFetchDone(res) ==
    /\ jobPc = "fetch"
    /\ LET a == arr[jobIdx]
       IN  /\ alerts' = IF res.source \notin {"raise", "captcha"} /\ res.price /= None
                        THEN set_price(alerts, a.id, Val(res.price), clock)
                        ELSE alerts
           /\ jobRes' = IF Notifies(a, res) THEN res.price ELSE None
           /\ IF res.source = "captcha"
              THEN /\ jobPc' = "send_captcha"
                   /\ UNCHANGED <<arr, jobIdx>>
              ELSE IF Notifies(a, res)
              THEN /\ jobPc' = "send_deal"
                   /\ UNCHANGED <<arr, jobIdx>>
              ELSE JobContinue(arr, jobIdx + 1)
    /\ UNCHANGED <<clock, nextRun, hVars>>

\* variant of JobCaptchaSent where a captcha notice that cannot be sent ends the cycle
JobCaptchaSent_stops(ok) ==
    /\ jobPc = "send_captcha"
    /\ IF ok
       THEN JobContinue(arr, jobIdx + 1)
       ELSE jobPc' = "idle" /\ arr' = <<>> /\ jobIdx' = 0
    /\ jobRes' = None
    /\ UNCHANGED <<alerts, clock, nextRun, hVars>>

\* c.bot.send_message of the captcha notice returns (ok) or raises
JobCaptchaSent(ok) ==
    /\ jobPc = "send_captcha"
    /\ JobContinue(arr, jobIdx + 1)
    /\ jobRes' = None
    /\ UNCHANGED <<alerts, clock, nextRun, hVars>>

\* variant of JobDealSent where a deal message that cannot be sent ends the cycle
JobDealSent_failure_aborts(ok) ==
    /\ jobPc = "send_deal"
    /\ alerts' = IF ok THEN set_notified(alerts, arr[jobIdx].id, Val(jobRes), clock)
                 ELSE alerts
    /\ IF ok
       THEN JobContinue(arr, jobIdx + 1)
       ELSE jobPc' = "idle" /\ arr' = <<>> /\ jobIdx' = 0
    /\ jobRes' = None
    /\ UNCHANGED <<clock, nextRun, hVars>>

\* JobDealSent with set_notified ahead of the await of send_message
JobDealSent_write_before_send(ok) ==
    /\ jobPc = "send_deal"
    /\ alerts' = set_notified(alerts, arr[jobIdx].id, Val(jobRes), clock)
    /\ JobContinue(arr, jobIdx + 1)
    /\ jobRes' = None
    /\ UNCHANGED <<clock, nextRun, hVars>>

\* c.bot.send_message of the deal returns (ok), then set_notified; or it raises
JobDealSent(ok) ==
    /\ jobPc = "send_deal"
    /\ alerts' = IF ok THEN set_notified(alerts, arr[jobIdx].id, Val(jobRes), clock)
                 ELSE alerts
    /\ JobContinue(arr, jobIdx + 1)
    /\ jobRes' = None
    /\ UNCHANGED <<clock, nextRun, hVars>>

\* fetch_price returned a price and self.db.set_price raises: the except
\* clause of the loop body logs it and the loop goes on
JobStoreError(res) ==
    /\ jobPc = "fetch"
    /\ res.source \notin {"raise", "captcha"}
    /\ res.price /= None
    /\ JobContinue(arr, jobIdx + 1)
    /\ jobRes' = None
    /\ UNCHANGED <<alerts, clock, nextRun, hVars>>

\* the deal message is delivered and self.db.set_notified raises: the except
\* clause of the loop body logs it and the loop goes on
JobNotifiedStoreError ==
    /\ jobPc = "send_deal"
    /\ JobContinue(arr, jobIdx + 1)
    /\ jobRes' = None
    /\ UNCHANGED <<alerts, clock, nextRun, hVars>>

-----------------------------------------------------------------------------
(* Chat handlers *)

\* len(item) < 2
TooShort(item) == Len(item) < 2

\* variant of NonPositive with < for <=
NonPositive_zero_ok(thr) == thr < 0

\* thr <= 0
NonPositive(thr) == thr <= 0

\* variant of AtCap with > for >=
AtCap_off_by_one(existing) == Cardinality(existing) > MAX_USER_ALERTS

\* len(existing_alerts) >= 15
AtCap(existing) == Cardinality(existing) >= MAX_USER_ALERTS

\* variant of HasItem without .lower()
HasItem_case_sensitive(db, existing, item) ==
    \E i \in existing : db[i].item_name = item

\* alert['item_name'].lower() == item.lower() for some alert of existing_alerts
HasItem(db, existing, item) ==
    \E i \in existing : lower(db[i].item_name) = lower(item)

\* what cmd_add and on_message answer to item and the price text tok
CreateOutcome(db, user, item, tok) ==
    LET thr == ParseThreshold(tok)
        existing == list_user(db, user)
    IN  IF TooShort(item) THEN "short"
        ELSE IF thr = None THEN "bad_price"
        ELSE IF NonPositive(Val(thr)) THEN "nonpositive"
        ELSE IF AtCap(existing) THEN "cap"
        ELSE IF HasItem(db, existing, item) THEN "duplicate"
        ELSE "added"

\* the table after the create request; maxStore bounds the rows of the model
Create(user, item, tok, maxStore) ==
    LET out == CreateOutcome(alerts, user, item, tok)
    IN  /\ out = "added" => Len(alerts) < maxStore
        /\ alerts' = IF out = "added"
                     THEN add(alerts, user, item, Val(ParseThreshold(tok)), clock)
                     ELSE alerts

\* /add <item> <price>
cmd_add(user, item, tok, maxStore) ==
    /\ hPc = "idle"
    /\ Create(user, item, tok, maxStore)
    /\ UNCHANGED <<clock, nextRun, jobVars, hVars>>

\* a text message "<item> | <price>"
on_message(user, item, tok, maxStore) ==
    /\ hPc = "idle"
    /\ MatchesPriceGroup(tok)
    /\ Create(user, item, tok, maxStore)
    /\ UNCHANGED <<clock, nextRun, jobVars, hVars>>

\* the delete button: on_cb with data "del_<id>"
on_cb_del(user, alert_id) ==
    /\ hPc = "idle"
    /\ alerts' = deactivate(alerts, alert_id, user)
    /\ UNCHANGED <<clock, nextRun, jobVars, hVars>>

\* the handler goes on with the rows of hList after position i
HContinue(i) ==
    IF i <= Len(hList)
    THEN /\ hIdx' = i
         /\ UNCHANGED <<hPc, hUser, hList>>
    ELSE /\ hPc' = "idle"
         /\ hUser' = 0
         /\ hList' = <<>>
         /\ hIdx' = 0

\* /checknow: user_alerts = list_user(...), then up to the first fetch
cmd_checknow(user) ==
    /\ hPc = "idle"
    /\ list_user(alerts, user) /= {}
    /\ \E order \in ListUserOrders(alerts, user) :
          hList' = [i \in 1 .. Len(order) |-> UserRow(alerts, order[i])]
    /\ hPc' = "cn_fetch"
    /\ hUser' = user
    /\ hIdx' = 1
    /\ UNCHANGED <<alerts, clock, nextRun, jobVars>>

\* variant of cmd_checknow_fetched that records the deal it reports as notified
cmd_checknow_fetched_notifies(res) ==
    /\ hPc = "cn_fetch"
    /\ alerts' = IF res.source /= "raise" /\ res.price /= None
                 THEN IF AtOrBelowThreshold(hList[hIdx], Val(res.price))
                      THEN set_notified(set_price(alerts, hList[hIdx].id, Val(res.price), clock),
                                        hList[hIdx].id, Val(res.price), clock)
                      ELSE set_price(alerts, hList[hIdx].id, Val(res.price), clock)
                 ELSE alerts
    /\ HContinue(hIdx + 1)
    /\ UNCHANGED <<clock, nextRun, jobVars>>

\* /checknow: fetch_price returns res (or raises) for the row at hIdx; a price at
\* or below the threshold is answered with a deal message, nothing else is stored
cmd_checknow_fetched(res) ==
    /\ hPc = "cn_fetch"
    /\ alerts' = IF res.source /= "raise" /\ res.price /= None
                 THEN set_price(alerts, hList[hIdx].id, Val(res.price), clock)
                 ELSE alerts
    /\ HContinue(hIdx + 1)
    /\ UNCHANGED <<clock, nextRun, jobVars>>

\* variant of on_cb_check that looks the alert up among all stored alerts
on_cb_check_any_owner(user, alert_id) ==
    /\ hPc = "idle"
    /\ alert_id \in DOMAIN alerts
    /\ hPc' = "cb_fetch"
    /\ hUser' = user
    /\ hList' = <<UserRow(alerts, alert_id)>>
    /\ hIdx' = 1
    /\ UNCHANGED <<alerts, clock, nextRun, jobVars>>

\* the check button: on_cb with data "check_<id>", up to the fetch
on_cb_check(user, alert_id) ==
    /\ hPc = "idle"
    /\ alert_id \in list_user(alerts, user)
    /\ hPc' = "cb_fetch"
    /\ hUser' = user
    /\ hList' = <<UserRow(alerts, alert_id)>>
    /\ hIdx' = 1
    /\ UNCHANGED <<alerts, clock, nextRun, jobVars>>

\* the check button: fetch_price returns res (or raises)
on_cb_check_fetched(res) ==
    /\ hPc = "cb_fetch"
    /\ alerts' = IF res.source /= "raise" /\ res.price /= None
                 THEN set_price(alerts, hList[hIdx].id, Val(res.price), clock)
                 ELSE alerts
    /\ HContinue(hIdx + 1)
    /\ UNCHANGED <<clock, nextRun, jobVars>>

-----------------------------------------------------------------------------
(* Time passes *)

Tick(maxTicks) ==
    /\ clock + TickLen <= StartTime + maxTicks * TickLen
    /\ clock' = clock + TickLen
    /\ UNCHANGED <<alerts, nextRun, jobVars, hVars>>

-----------------------------------------------------------------------------
(* History: what the properties look at.  The actions above do not read it. *)

Event(op, id, user, item, price, ok) ==
    [op |-> op, id |-> id, user |-> user, item |-> item, price |-> price, ok |-> ok]

\* the outcomes of a fetch that give no answer about the item's price
FailedSources == {"captcha", "error", "raise"}

\* the entry of a step that no property looks at
Quiet == Event("-", 0, 0, <<>>, None, TRUE)

AlertIds == 1 .. (CapPrefill + MaxAlerts)

NoHistory == ev' = Quiet /\ UNCHANGED <<notified, fetched, manual, failed>>

\* a cycle of the job begins
LogJobStart ==
    /\ ev' = Quiet
    /\ manual' = {}
    /\ failed' = {}
    /\ UNCHANGED <<notified, fetched>>

\* a manual check got res for the row at hIdx
LogManualFetched(res) ==
    /\ ev' = Quiet
    /\ manual' = IF res.source /= "raise" /\ res.price /= None
                 THEN manual \cup {hList[hIdx].id}
                 ELSE manual
    /\ UNCHANGED <<notified, fetched, failed>>

\* the job evaluated res for the row at jobIdx; ok: it goes on to send the deal
LogJobFetchDone(res) ==
    /\ ev' = Event("job_" \o res.source, arr[jobIdx].id, arr[jobIdx].user_id, <<>>,
                   res.price, Notifies(arr[jobIdx], res))
    /\ UNCHANGED <<notified, manual>>
    /\ failed' = IF res.source \in FailedSources
                 THEN failed \cup {arr[jobIdx].id}
                 ELSE failed
    /\ fetched' = [fetched EXCEPT ![arr[jobIdx].id] =
                      Some([start |-> Val(fetched[arr[jobIdx].id]).start,
                            listing |-> res.source = "listing",
                            source |-> res.source])]

\* the job called fetch_price for the row at jobIdx
LogJobFetchStart ==
    /\ ev' = Quiet
    /\ UNCHANGED <<notified, manual, failed>>
    /\ fetched' = [fetched EXCEPT ![arr[jobIdx].id] =
                      Some([start |-> clock, listing |-> FALSE, source |-> "pending"])]

\* the deal message went to chat user with price jobRes; ok: it was delivered
LogJobDealSent(ok) ==
    /\ ev' = Event("job_deal_sent", arr[jobIdx].id, arr[jobIdx].user_id, <<>>, jobRes, ok)
    /\ notified' = IF ok
                   THEN [notified EXCEPT ![arr[jobIdx].id] = Append(@, Val(jobRes))]
                   ELSE notified
    /\ UNCHANGED <<fetched, manual, failed>>

LogJobCaptchaSent(ok) ==
    /\ ev' = Event("job_captcha_sent", arr[jobIdx].id, arr[jobIdx].user_id, <<>>, None, ok)
    /\ UNCHANGED <<notified, fetched, manual, failed>>

\* the store failed at set_price for the row at jobIdx
LogJobStoreError ==
    /\ ev' = Event("job_store_error", arr[jobIdx].id, arr[jobIdx].user_id, <<>>, None, FALSE)
    /\ UNCHANGED <<notified, fetched, manual, failed>>

\* the deal message was delivered, then the store failed at set_notified
LogJobNotifiedStoreError ==
    /\ ev' = Event("job_notified_store_error", arr[jobIdx].id, arr[jobIdx].user_id, <<>>,
                   jobRes, FALSE)
    /\ notified' = [notified EXCEPT ![arr[jobIdx].id] = Append(@, Val(jobRes))]
    /\ UNCHANGED <<fetched, manual, failed>>

\* a create request; price is the parsed threshold, ok: a row was added
LogCreate(user, item, tok) ==
    LET added == CreateOutcome(alerts, user, item, tok) = "added"
    IN  /\ ev' = Event("add", IF added THEN Len(alerts) + 1 ELSE 0,
                       user, item, ParseThreshold(tok), added)
        /\ UNCHANGED <<notified, fetched, manual, failed>>

\* a delete request; ok: what deactivate returned
LogDel(user, alert_id) ==
    /\ ev' = Event("del", alert_id, user, <<>>, None, deactivate_ok(alerts, alert_id, user))
    /\ UNCHANGED <<notified, fetched, manual, failed>>

InitHistory ==
    /\ ev = Quiet
    /\ notified = [i \in AlertIds |-> <<>>]
    /\ fetched = [i \in AlertIds |-> None]
    /\ manual = {}
    /\ failed = {}

InitIdle ==
    /\ clock = StartTime
    /\ nextRun = StartTime + FIRST
    /\ jobPc = "idle"
    /\ arr = <<>>
    /\ jobIdx = 0
    /\ jobRes = None
    /\ hPc = "idle"
    /\ hUser = 0
    /\ hList = <<>>
    /\ hIdx = 0

-----------------------------------------------------------------------------
(* Spec: the scheduler and the chat handlers around one alert that is in the *)
(* store when the bot starts (the table outlives the process).               *)

\* a row as /add leaves it
StoredAlert(user, item, thr, created) ==
    [user_id |-> user, item_name |-> item, threshold_price |-> thr,
     current_price |-> 0, last_check |-> 0, is_active |-> 1, created_at |-> created,
     last_notified_price |-> None, last_notified_at |-> 0]

Init ==
    /\ alerts = <<StoredAlert(1, <<"K", "u">>, InitThreshold, StartTime)>>
    /\ InitIdle
    /\ InitHistory
    /\ fetch = FetchIdle
    /\ parse = ParseIdle
    /\ request = RequestIdle
    /\ engine = EngineIdle

JobNext ==
    \/ JobStart /\ LogJobStart /\ UNCHANGED <<fetch, parse, request, engine>>
    \/ JobFetchStart /\ LogJobFetchStart /\ UNCHANGED <<fetch, parse, request, engine>>
    \/ \E res \in FetchResults : JobFetchDone(res) /\ LogJobFetchDone(res) /\ UNCHANGED <<fetch, parse, request, engine>>
    \/ \E ok \in BOOLEAN : JobCaptchaSent(ok) /\ LogJobCaptchaSent(ok) /\ UNCHANGED <<fetch, parse, request, engine>>
    \/ \E ok \in BOOLEAN : JobDealSent(ok) /\ LogJobDealSent(ok) /\ UNCHANGED <<fetch, parse, request, engine>>

ManualNext ==
    \/ \E u \in Users : cmd_checknow(u) /\ NoHistory /\ UNCHANGED <<fetch, parse, request, engine>>
    \/ \E res \in FetchResults : cmd_checknow_fetched(res) /\ LogManualFetched(res) /\ UNCHANGED <<fetch, parse, request, engine>>
    \/ \E u \in Users, id \in 1 .. MaxAlerts : on_cb_check(u, id) /\ NoHistory /\ UNCHANGED <<fetch, parse, request, engine>>
    \/ \E res \in FetchResults : on_cb_check_fetched(res) /\ LogManualFetched(res) /\ UNCHANGED <<fetch, parse, request, engine>>

Next ==
    \/ Tick(MaxTicks) /\ NoHistory /\ UNCHANGED <<fetch, parse, request, engine>>
    \/ JobNext
    \/ ManualNext
    \/ \E u \in Users, id \in 1 .. MaxAlerts : on_cb_del(u, id) /\ NoHistory /\ UNCHANGED <<fetch, parse, request, engine>>

Spec == Init /\ [][Next]_vars

-----------------------------------------------------------------------------
(* SpecPair: two alerts of two owners are in the store when the bot starts;  *)
(* the scheduler runs while the owners use the check and delete buttons.     *)

InitPair ==
    /\ alerts = <<StoredAlert(1, <<"K", "u">>, InitThreshold, StartTime),
                  StoredAlert(2, <<"w", "x">>, InitThreshold, StartTime)>>
    /\ InitIdle
    /\ InitHistory
    /\ fetch = FetchIdle
    /\ parse = ParseIdle
    /\ request = RequestIdle
    /\ engine = EngineIdle

JobNextQuiet ==
    \/ JobStart /\ NoHistory /\ UNCHANGED <<fetch, parse, request, engine>>
    \/ JobFetchStart /\ NoHistory /\ UNCHANGED <<fetch, parse, request, engine>>
    \/ \E res \in FetchResults : JobFetchDone(res) /\ NoHistory /\ UNCHANGED <<fetch, parse, request, engine>>
    \/ \E ok \in BOOLEAN : JobCaptchaSent(ok) /\ NoHistory /\ UNCHANGED <<fetch, parse, request, engine>>
    \/ \E ok \in BOOLEAN : JobDealSent(ok) /\ NoHistory /\ UNCHANGED <<fetch, parse, request, engine>>

NextPair ==
    \/ Tick(PairTicks) /\ NoHistory /\ UNCHANGED <<fetch, parse, request, engine>>
    \/ JobNextQuiet
    \/ \E u \in Users, id \in 1 .. MaxAlerts : on_cb_check(u, id) /\ NoHistory /\ UNCHANGED <<fetch, parse, request, engine>>
    \/ \E res \in FetchResults : on_cb_check_fetched(res) /\ NoHistory /\ UNCHANGED <<fetch, parse, request, engine>>
    \/ \E u \in Users, id \in 1 .. MaxAlerts : on_cb_del(u, id) /\ NoHistory /\ UNCHANGED <<fetch, parse, request, engine>>

SpecPair == InitPair /\ [][NextPair]_vars

-----------------------------------------------------------------------------
(* SpecCycle: the scheduler alone over the two stored alerts, with history.  *)

NextCycle ==
    \/ Tick(CycleTicks) /\ NoHistory /\ UNCHANGED <<fetch, parse, request, engine>>
    \/ JobNext
    \/ \E u \in Users, id \in 1 .. MaxAlerts : on_cb_del(u, id) /\ NoHistory /\ UNCHANGED <<fetch, parse, request, engine>>

SpecCycle == InitPair /\ [][NextCycle]_vars

-----------------------------------------------------------------------------
(* SpecFaulty: the scheduler over the two stored alerts with a store that    *)
(* can fail at set_price and at set_notified.                                *)

NextFaulty ==
    \/ Tick(CycleTicks) /\ NoHistory /\ UNCHANGED <<fetch, parse, request, engine>>
    \/ JobNext
    \/ \E res \in FetchResults : JobStoreError(res) /\ LogJobStoreError /\ UNCHANGED <<fetch, parse, request, engine>>
    \/ JobNotifiedStoreError /\ LogJobNotifiedStoreError /\ UNCHANGED <<fetch, parse, request, engine>>
    \/ \E u \in Users, id \in 1 .. MaxAlerts : on_cb_del(u, id) /\ NoHistory /\ UNCHANGED <<fetch, parse, request, engine>>

SpecFaulty == InitPair /\ [][NextFaulty]_vars

\* the job goes on after an await: the event loop resumes the task once the
\* awaited sleep, fetch or send has returned or raised
JobResumes ==
    \/ JobFetchStart /\ LogJobFetchStart /\ UNCHANGED <<fetch, parse, request, engine>>
    \/ \E res \in FetchResults : JobFetchDone(res) /\ LogJobFetchDone(res) /\ UNCHANGED <<fetch, parse, request, engine>>
    \/ \E ok \in BOOLEAN : JobCaptchaSent(ok) /\ LogJobCaptchaSent(ok) /\ UNCHANGED <<fetch, parse, request, engine>>
    \/ \E ok \in BOOLEAN : JobDealSent(ok) /\ LogJobDealSent(ok) /\ UNCHANGED <<fetch, parse, request, engine>>

\* SpecLive: SpecFaulty where every await of the job completes: asyncio.sleep
\* returns, fetch_price returns a result or raises within its timeouts, and
\* send_message returns or raises
SpecLive == InitPair /\ [][NextFaulty]_vars /\ WF_vars(JobResumes)

-----------------------------------------------------------------------------
(* SpecStore: the alert table from empty, under create and delete requests.  *)

Items == {<<"k">>, <<"k", "u">>, <<"K", "U">>, <<"w", "x">>}

PriceTexts == {<<"2">>, <<"2", ".">>, <<"0">>, <<"-", "2">>, <<"x">>, <<".">>}

\* the create requests tried: every item with a valid price, one item with every price text
CreateRequests ==
    {<<item, <<"2">>>> : item \in Items} \cup {<<<<"w", "x">>, tok>> : tok \in PriceTexts}

InitStore ==
    /\ alerts = <<>>
    /\ InitIdle
    /\ InitHistory
    /\ fetch = FetchIdle
    /\ parse = ParseIdle
    /\ request = RequestIdle
    /\ engine = EngineIdle

NextStore ==
    \/ \E u \in Users, r \in CreateRequests :
          cmd_add(u, r[1], r[2], MaxAlerts) /\ LogCreate(u, r[1], r[2]) /\ UNCHANGED <<fetch, parse, request, engine>>
    \/ \E u \in Users, r \in CreateRequests :
          on_message(u, r[1], r[2], MaxAlerts) /\ LogCreate(u, r[1], r[2]) /\ UNCHANGED <<fetch, parse, request, engine>>
    \/ \E u \in Users, id \in 1 .. MaxAlerts : on_cb_del(u, id) /\ LogDel(u, id) /\ UNCHANGED <<fetch, parse, request, engine>>

SpecStore == InitStore /\ [][NextStore]_vars

-----------------------------------------------------------------------------
(* SpecCap: one user starts with CapPrefill active alerts in the store.      *)

\* CapPrefill distinct item names: i + 1 times the letter n
NameOf(i) == [k \in 1 .. (i + 1) |-> "n"]

CapItems == {<<"w", "x">>, <<"y", "z">>}

CapIds == {1, CapPrefill + 1}

InitCap ==
    /\ alerts = [i \in 1 .. CapPrefill |-> StoredAlert(1, NameOf(i), InitThreshold, StartTime)]
    /\ InitIdle
    /\ InitHistory
    /\ fetch = FetchIdle
    /\ parse = ParseIdle
    /\ request = RequestIdle
    /\ engine = EngineIdle

NextCap ==
    \/ \E u \in Users, item \in CapItems :
          cmd_add(u, item, <<"2">>, CapPrefill + MaxAlerts) /\ LogCreate(u, item, <<"2">>) /\ UNCHANGED <<fetch, parse, request, engine>>
    \/ \E u \in Users, item \in CapItems :
          on_message(u, item, <<"2">>, CapPrefill + MaxAlerts) /\ LogCreate(u, item, <<"2">>) /\ UNCHANGED <<fetch, parse, request, engine>>
    \/ \E u \in Users, id \in CapIds : on_cb_del(u, id) /\ LogDel(u, id) /\ UNCHANGED <<fetch, parse, request, engine>>

SpecCap == InitCap /\ [][NextCap]_vars

-----------------------------------------------------------------------------
(* TTC.fetch_price of src/main.py, one action per await on the engine.  Each *)
(* such await returns or raises (the engine, the network and the page are    *)
(* outside the program).  fetch.pc is the place the call has reached:        *)
(* "init", "new_context", "new_page", "goto", "captcha_check", "table",      *)
(* "extract", "close_page", "close_context", and "returned" or "raised" once *)
(* the call is over.                                                         *)

ROW_LIMIT == 15

\* every variable but fetch
botVars == <<alerts, clock, nextRun, jobPc, arr, jobIdx, jobRes,
             hPc, hUser, hList, hIdx, parse, request, engine,
             ev, notified, fetched, manual, failed>>

\* PriceResult(item_id, price, guild, loc, url, source) without item_id and url
FetchResult(source, price, guild, loc) ==
    [source |-> source, price |-> price, guild |-> guild, loc |-> loc]

Unknown == "Bilinmiyor"

\* A result row of the page.  price_cell: the price cell is found ("ok"), is
\* not there ("missing"), or the query raises ("raise"); parsed: what
\* _parse_price makes of the cell's text; details: reading the row's cells
\* for seller and location works ("ok"), finds fewer than three cells
\* ("short"), or raises at query_selector_all ("raise_cells"), at the seller
\* cell ("raise_guild") or at the location cell ("raise_loc").
Row(price_cell, parsed, guild, loc, details) ==
    [price_cell |-> price_cell, parsed |-> parsed, guild |-> guild, loc |-> loc,
     details |-> details]

\* variant of FirstRows that takes every row
FirstRows_all(rows) == rows

\* rows[:15]
FirstRows(rows) ==
    SubSeq(rows, 1, IF Len(rows) < ROW_LIMIT THEN Len(rows) ELSE ROW_LIMIT)

\* the price the loop body gets from one row, None when the row is skipped
RowPrice(r) ==
    IF r.price_cell = "ok" /\ r.parsed /= None /\ Val(r.parsed) > 0
    THEN r.parsed
    ELSE None

\* the loop over the rows from position i on; best is (lowest_price, best_row)
RECURSIVE ScanRows(_, _, _)
ScanRows(rows, i, best) ==
    IF i > Len(rows)
    THEN best
    ELSE LET cur == RowPrice(rows[i])
         IN  ScanRows(rows, i + 1,
                      IF cur /= None /\ (best.price = None \/ Val(cur) < Val(best.price))
                      THEN [price |-> cur, row |-> i]
                      ELSE best)

\* guild and loc as read from the best row
Details(r) ==
    CASE r.details = "ok"          -> [guild |-> Some(r.guild), loc |-> Some(r.loc)]
      [] r.details = "short"       -> [guild |-> None, loc |-> None]
      [] r.details = "raise_loc"   -> [guild |-> Some(r.guild), loc |-> Some(Unknown)]
      [] OTHER                     -> [guild |-> Some(Unknown), loc |-> Some(Unknown)]

\* the result the rows of the page lead to
extract(rows) ==
    LET best == ScanRows(FirstRows(rows), 1, [price |-> None, row |-> 0])
    IN  IF best.row = 0
        THEN FetchResult("fallback", None, None, None)
        ELSE LET d == Details(rows[best.row])
             IN  FetchResult("listing", best.price, d.guild, d.loc)

\* where the finally block starts, given what the call holds
AfterTry(f) ==
    IF f.page = "open" THEN "close_page"
    ELSE IF f.context = "open" THEN "close_context"
    ELSE "returned"

\* a return statement or the except clause inside the try block
Leave(f, res) == [f EXCEPT !.res = Some(res), !.pc = AfterTry(f)]

\* variant: the failure keeps a price read before it
Failure_priced == FetchResult("error", Some(1), None, None)

\* what the except clause of the try block leaves: source = "error"
Failure == FetchResult("error", None, None, None)

\* a caller calls fetch_price(item_name, headless)
fetch_price(headless) ==
    /\ fetch.pc \in {"idle", "returned", "raised"}
    /\ fetch' = [FetchIdle EXCEPT !.pc = "init", !.headless = headless,
                                  !.playwright = fetch.playwright,
                                  !.browser = fetch.browser]
    /\ UNCHANGED botVars

\* await self.init(): starts playwright and launches chromium unless done before
init(out) ==
    /\ fetch.pc = "init"
    /\ out = "start_raises" => ~fetch.playwright
    /\ out = "launch_raises" => fetch.browser = "none"
    /\ fetch' = CASE out = "start_raises"  -> [fetch EXCEPT !.pc = "raised"]
                  [] out = "launch_raises" -> [fetch EXCEPT !.pc = "raised",
                                                            !.playwright = TRUE]
                  [] OTHER                 -> [fetch EXCEPT !.pc = "new_context",
                                                            !.playwright = TRUE,
                                                            !.browser = "headless"]
    /\ UNCHANGED botVars

\* context = await self.browser.new_context(...)
new_context(ok) ==
    /\ fetch.pc = "new_context"
    /\ fetch' = IF ok
                THEN [fetch EXCEPT !.context = "open", !.pc = "new_page"]
                ELSE Leave(fetch, Failure)
    /\ UNCHANGED botVars

\* page = await context.new_page()
new_page(ok) ==
    /\ fetch.pc = "new_page"
    /\ fetch' = IF ok
                THEN [fetch EXCEPT !.page = "open", !.pc = "goto"]
                ELSE Leave(fetch, Failure)
    /\ UNCHANGED botVars

\* page.goto, the wait and the ad dialog (whose own errors are caught)
goto(ok) ==
    /\ fetch.pc = "goto"
    /\ fetch' = IF ok
                THEN [fetch EXCEPT !.pc = "captcha_check"]
                ELSE Leave(fetch, Failure)
    /\ UNCHANGED botVars

\* the query for #captcha-modal and is_visible()
captcha_check(out) ==
    /\ fetch.pc = "captcha_check"
    /\ fetch' = CASE out = "visible" -> Leave([fetch EXCEPT !.challenge = TRUE],
                                              FetchResult("captcha", None, None, None))
                  [] out = "clear"   -> [fetch EXCEPT !.pc = "table"]
                  [] OTHER           -> Leave(fetch, Failure)
    /\ UNCHANGED botVars

\* wait_for_selector on the table and query_selector_all for its rows
wait_for_table(ok, rows) ==
    /\ fetch.pc = "table"
    /\ fetch' = IF ok
                THEN [fetch EXCEPT !.rows = rows, !.pc = "extract"]
                ELSE Leave(fetch, Failure)
    /\ UNCHANGED botVars

\* the loop over rows[:15] and the read of the best row
extract_rows ==
    /\ fetch.pc = "extract"
    /\ fetch' = Leave(fetch, extract(fetch.rows))
    /\ UNCHANGED botVars

\* finally: await page.close(); when it raises, the except clause of the
\* cleanup is next and context.close() is not reached
page_close(out) ==
    /\ fetch.pc = "close_page"
    /\ fetch' = CASE out = "ok" ->
                       [fetch EXCEPT !.page = "closed",
                                     !.pc = IF fetch.context = "open"
                                            THEN "close_context" ELSE "returned"]
                  [] out = "raises_closed" ->
                       [fetch EXCEPT !.page = "closed", !.pc = "returned"]
                  [] OTHER ->
                       [fetch EXCEPT !.pc = "returned"]
    /\ UNCHANGED botVars

\* finally: await context.close()
context_close(ok) ==
    /\ fetch.pc = "close_context"
    /\ fetch' = [fetch EXCEPT !.context = IF ok THEN "closed" ELSE "open",
                              !.pc = "returned"]
    /\ UNCHANGED botVars

-----------------------------------------------------------------------------
(* SpecFetch: calls of fetch_price of src/main.py, one after the other, in   *)
(* both modes, with every outcome of every await.                            *)

Sellers == {"g1", "g2"}

\* the trader's place, one per seller
LocOf(g) == IF g = "g1" THEN "l1" ELSE "l2"

\* the rows tried: a priced row of every seller, a cheapest row whose cells
\* cannot be read in each of the four ways, and the three rows without a price
RowKinds ==
    {Row("ok", Some(p), g, LocOf(g), "ok") : p \in Prices, g \in Sellers}
        \cup {Row("ok", Some(1), "g1", LocOf("g1"), d) :
                  d \in {"short", "raise_cells", "raise_guild", "raise_loc"}}
        \cup {Row("ok", None, "g1", LocOf("g1"), "ok"),
              Row("missing", None, "g1", LocOf("g1"), "ok"),
              Row("raise", None, "g1", LocOf("g1"), "ok")}

\* the pages tried in SpecFetch: no row or one row
PageRows == {<<>>} \cup {<<r>> : r \in RowKinds}

InitFetch ==
    /\ alerts = <<>>
    /\ InitIdle
    /\ InitHistory
    /\ fetch = FetchIdle
    /\ parse = ParseIdle
    /\ request = RequestIdle
    /\ engine = EngineIdle

NextFetch ==
    \/ \E h \in BOOLEAN : fetch_price(h)
    \/ \E out \in {"ok", "start_raises", "launch_raises"} : init(out)
    \/ \E ok \in BOOLEAN : new_context(ok)
    \/ \E ok \in BOOLEAN : new_page(ok)
    \/ \E ok \in BOOLEAN : goto(ok)
    \/ \E out \in {"visible", "clear", "raises"} : captcha_check(out)
    \/ \E rows \in PageRows : wait_for_table(TRUE, rows)
    \/ wait_for_table(FALSE, <<>>)
    \/ extract_rows
    \/ \E out \in {"ok", "raises_closed", "raises_open"} : page_close(out)
    \/ \E ok \in BOOLEAN : context_close(ok)

SpecFetch == InitFetch /\ [][NextFetch]_vars

-----------------------------------------------------------------------------
(* SpecExtract: the extraction of fetch_price of src/main.py over pages of   *)
(* up to ROW_LIMIT + MaxTail rows; the call has just got the rows.           *)

\* n times the row r
Filler(n, r) == [k \in 1 .. n |-> r]

\* the rows a page is filled up with: the dearest row, and a row without a price
FillerRows == {Row("ok", Some(MaxPrice), "g2", LocOf("g2"), "ok"),
               Row("ok", None, "g1", LocOf("g1"), "ok")}

\* the last rows of a page
Tails == UNION {[1 .. n -> RowKinds] : n \in 0 .. MaxTail}

\* pages that end before, at and after the row limit
RowInputs ==
    {Filler(n, f) \o t : n \in {0, ROW_LIMIT - 1, ROW_LIMIT}, f \in FillerRows, t \in Tails}

\* the call in progress right after query_selector_all returned rows
AtExtract(headless, rows) ==
    [FetchIdle EXCEPT !.pc = "extract", !.headless = headless, !.playwright = TRUE,
                      !.browser = "headless", !.context = "open", !.page = "open",
                      !.rows = rows]

InitExtract ==
    /\ alerts = <<>>
    /\ InitIdle
    /\ InitHistory
    /\ fetch \in {AtExtract(TRUE, rows) : rows \in RowInputs}
    /\ parse = ParseIdle
    /\ request = RequestIdle
    /\ engine = EngineIdle

NextExtract ==
    \/ extract_rows
    \/ \E out \in {"ok", "raises_closed", "raises_open"} : page_close(out)
    \/ \E ok \in BOOLEAN : context_close(ok)

SpecExtract == InitExtract /\ [][NextExtract]_vars

-----------------------------------------------------------------------------
(* TTC.fetch_price of src/create_state.py.  It starts and stops its own      *)
(* engine in every call, and on a visible challenge it opens a headful       *)
(* browser and polls until the challenge is gone.  fetch.pc: "cs_launch",    *)
(* "cs_open", "cs_captcha_check", "cs_reopen", "cs_poll", "cs_save",         *)
(* "cs_extract", "cs_cleanup", "returned".                                   *)

MAX_POLLS == 120
POLL_SLEEP == 2

\* a return statement or the outer except clause
cs_leave(f, res) == [f EXCEPT !.res = Some(res), !.pc = "cs_cleanup"]

\* a caller calls fetch_price(item_name, headless)
cs_fetch_price(headless) ==
    /\ fetch.pc \in {"idle", "returned"}
    /\ fetch' = [FetchIdle EXCEPT !.pc = "cs_launch", !.headless = headless]
    /\ UNCHANGED botVars

\* async_playwright().start() and chromium.launch(headless=headless)
cs_launch(out) ==
    /\ fetch.pc = "cs_launch"
    /\ fetch' = CASE out = "start_raises"  -> cs_leave(fetch, Failure)
                  [] out = "launch_raises" -> cs_leave([fetch EXCEPT !.playwright = TRUE],
                                                       Failure)
                  [] OTHER ->
                       [fetch EXCEPT !.playwright = TRUE,
                                     !.browser = IF fetch.headless THEN "headless"
                                                 ELSE "visible",
                                     !.visible = ~fetch.headless,
                                     !.pc = "cs_open"]
    /\ UNCHANGED botVars

\* browser.new_context, context.new_page, page.goto and the wait
cs_open(out) ==
    /\ fetch.pc = "cs_open"
    /\ fetch' = CASE out = "context_raises" -> cs_leave(fetch, Failure)
                  [] out = "page_raises" ->
                       cs_leave([fetch EXCEPT !.context = "open"], Failure)
                  [] out = "goto_raises" ->
                       cs_leave([fetch EXCEPT !.context = "open", !.page = "open"], Failure)
                  [] OTHER ->
                       [fetch EXCEPT !.context = "open", !.page = "open",
                                     !.pc = "cs_captcha_check"]
    /\ UNCHANGED botVars

\* the query for #captcha-modal and is_visible()
cs_captcha_check(out) ==
    /\ fetch.pc = "cs_captcha_check"
    /\ fetch' = CASE out = "visible" -> [fetch EXCEPT !.challenge = TRUE, !.pc = "cs_reopen"]
                  [] out = "clear"   -> [fetch EXCEPT !.pc = "cs_extract"]
                  [] OTHER           -> cs_leave(fetch, Failure)
    /\ UNCHANGED botVars

\* page, context and browser are closed and a headful browser is launched,
\* whatever headless is; then new_context, new_page and goto
cs_reopen(ok) ==
    /\ fetch.pc = "cs_reopen"
    /\ fetch' = IF ok
                THEN [fetch EXCEPT !.browser = "visible", !.visible = TRUE,
                                   !.context = "open", !.page = "open",
                                   !.polls = 0, !.pc = "cs_poll"]
                ELSE cs_leave(fetch, Failure)
    /\ UNCHANGED botVars

\* variant of cs_poll whose loop runs once more
cs_poll_one_more(solved) ==
    /\ fetch.pc = "cs_poll"
    /\ fetch' = IF solved
                THEN [fetch EXCEPT !.polls = @ + 1, !.pc = "cs_save"]
                ELSE IF fetch.polls + 1 = MAX_POLLS + 1
                THEN cs_leave([fetch EXCEPT !.polls = @ + 1, !.waited = @ + POLL_SLEEP],
                              FetchResult("captcha", None, None, None))
                ELSE [fetch EXCEPT !.polls = @ + 1, !.waited = @ + POLL_SLEEP]
    /\ UNCHANGED botVars

\* one turn of for i in range(120): the test of the challenge, then either
\* break or asyncio.sleep(2); after the last turn the call returns "captcha"
cs_poll(solved) ==
    /\ fetch.pc = "cs_poll"
    /\ fetch' = IF solved
                THEN [fetch EXCEPT !.polls = @ + 1, !.pc = "cs_save"]
                ELSE IF fetch.polls + 1 = MAX_POLLS
                THEN cs_leave([fetch EXCEPT !.polls = @ + 1, !.waited = @ + POLL_SLEEP],
                              FetchResult("captcha", None, None, None))
                ELSE [fetch EXCEPT !.polls = @ + 1, !.waited = @ + POLL_SLEEP]
    /\ UNCHANGED botVars

\* context.storage_state(path=STORAGE_STATE); a failure is logged only
cs_save(ok) ==
    /\ fetch.pc = "cs_save"
    /\ fetch' = [fetch EXCEPT !.artifact = ok, !.pc = "cs_extract"]
    /\ UNCHANGED botVars

\* the table: its rows are read as in main.py; or no row and a challenge on
\* the page; or an error whose handler finds "captcha" in the title; or an
\* error whose handler raises
cs_extract(out, rows) ==
    /\ fetch.pc = "cs_extract"
    /\ fetch' = CASE out = "rows" -> cs_leave([fetch EXCEPT !.rows = rows], extract(rows))
                  [] out = "captcha" ->
                       cs_leave(fetch, FetchResult("captcha", None, None, None))
                  [] OTHER -> cs_leave(fetch, Failure)
    /\ UNCHANGED botVars

\* finally: page, context, browser and playwright are closed in one try
cs_cleanup(ok) ==
    /\ fetch.pc = "cs_cleanup"
    /\ fetch' = IF ok
                THEN [fetch EXCEPT !.page = IF @ = "open" THEN "closed" ELSE @,
                                   !.context = IF @ = "open" THEN "closed" ELSE @,
                                   !.browser = IF @ = "none" THEN @ ELSE "closed",
                                   !.playwright = FALSE,
                                   !.pc = "returned"]
                ELSE [fetch EXCEPT !.pc = "returned"]
    /\ UNCHANGED botVars

NextCS ==
    \/ \E h \in BOOLEAN : cs_fetch_price(h)
    \/ \E out \in {"ok", "start_raises", "launch_raises"} : cs_launch(out)
    \/ \E out \in {"ok", "context_raises", "page_raises", "goto_raises"} : cs_open(out)
    \/ \E out \in {"visible", "clear", "raises"} : cs_captcha_check(out)
    \/ \E ok \in BOOLEAN : cs_reopen(ok)
    \/ \E solved \in BOOLEAN : cs_poll(solved)
    \/ \E ok \in BOOLEAN : cs_save(ok)
    \/ \E rows \in PageRows : cs_extract("rows", rows)
    \/ \E out \in {"captcha", "raises"} : cs_extract(out, <<>>)
    \/ \E ok \in BOOLEAN : cs_cleanup(ok)

\* the event loop resumes the coroutine after every poll and every sleep
SpecCS == InitFetch /\ [][NextCS]_vars /\ WF_vars(\E solved \in BOOLEAN : cs_poll(solved))

-----------------------------------------------------------------------------
(* SpecSeq: the scheduler's cycle over the two stored alerts together with   *)
(* the steps of every fetch_price it awaits (src/main.py).                   *)

\* what the job gets from the call that is over
ResultOf(f) ==
    IF f.pc = "raised"
    THEN PriceResult("raise", None)
    ELSE PriceResult(Val(f.res).source, Val(f.res).price)

\* asyncio.sleep returns and the job calls self.ttc.fetch_price(item, headless=True)
JobCallsFetch ==
    /\ JobFetchStart
    /\ fetch' = [FetchIdle EXCEPT !.pc = "init", !.headless = TRUE,
                                  !.playwright = fetch.playwright,
                                  !.browser = fetch.browser]

\* the awaited call is over: the job goes on with its result; the locals of
\* the call are gone, what it left open in the engine stays
JobFetchReturns ==
    /\ fetch.pc \in {"returned", "raised"}
    /\ JobFetchDone(ResultOf(fetch))
    /\ fetch' = [fetch EXCEPT !.rows = <<>>, !.res = None, !.challenge = FALSE]

\* the pages tried in SpecSeq: no row, or one row with the lowest price
SeqRows == {<<>>, <<Row("ok", Some(1), "g1", LocOf("g1"), "ok")>>}

NextSeq ==
    \/ Tick(PairTicks) /\ NoHistory /\ UNCHANGED <<fetch, parse, request, engine>>
    \/ JobStart /\ NoHistory /\ UNCHANGED <<fetch, parse, request, engine>>
    \/ JobCallsFetch /\ NoHistory /\ UNCHANGED <<parse, request, engine>>
    \/ \E out \in {"ok", "start_raises", "launch_raises"} : init(out)
    \/ \E ok \in BOOLEAN : new_context(ok)
    \/ \E ok \in BOOLEAN : new_page(ok)
    \/ \E ok \in BOOLEAN : goto(ok)
    \/ \E out \in {"visible", "clear", "raises"} : captcha_check(out)
    \/ \E rows \in SeqRows : wait_for_table(TRUE, rows)
    \/ wait_for_table(FALSE, <<>>)
    \/ extract_rows
    \/ \E out \in {"ok", "raises_closed", "raises_open"} : page_close(out)
    \/ \E ok \in BOOLEAN : context_close(ok)
    \/ JobFetchReturns /\ NoHistory /\ UNCHANGED <<parse, request, engine>>
    \/ \E ok \in BOOLEAN : JobCaptchaSent(ok) /\ NoHistory /\ UNCHANGED <<fetch, parse, request, engine>>
    \/ \E ok \in BOOLEAN : JobDealSent(ok) /\ NoHistory /\ UNCHANGED <<fetch, parse, request, engine>>

SpecSeq == InitPair /\ [][NextSeq]_vars

(***************************************************************************)
(* SpecParse: _parse_price of src/main.py applied to the text of one price *)
(* cell.  The cells are every text of up to MaxText characters, and the    *)
(* grouped numbers of up to three digit groups with whatever follows them  *)
(* in a cell.                                                              *)
(***************************************************************************)

\* the characters of the short texts: digits, both separators, the three
\* whitespace characters and a letter
Alphabet == {"0", "1", ".", ",", "\n", " ", "\t", "g"}

RECURSIVE Texts(_)
Texts(n) ==
    IF n = 0 THEN {<<>>}
    ELSE LET shorter == Texts(n - 1)
         IN  shorter \cup {Append(t, c) : t \in shorter, c \in Alphabet}

\* digit groups of every length up to three, and with a group of four
ShortGroups == {<<>>, <<"5">>, <<"1", "2">>, <<"5", "6">>,
                <<"2", "3", "4">>, <<"0", "0", "0">>}

Groups == ShortGroups \cup {<<"0", "5", "6", "7">>}

Separators == {<<".">>, <<",">>}

\* what a cell holds after the unit price: nothing, letters after a space or
\* a tab, the lines of the quantity and the total
Trailers == {<<>>, <<" ", "g">>, <<"\t", "g">>, <<" ", "\n", "X", "\n", "5">>}

TwoGroups == {a \o s \o b : a \in Groups, s \in Separators, b \in Groups}

\* three groups stay below ten digits
ThreeGroups ==
    {a \o s \o b \o t \o c : a \in ShortGroups \ {<<>>}, s \in Separators,
                              b \in ShortGroups, t \in Separators,
                              c \in ShortGroups}

Grouped == {n \o t : n \in Groups \cup TwoGroups \cup ThreeGroups, t \in Trailers}

Words == {<<"a", "b", "c">>, <<"-", "5">>, <<"g", "\n", "5">>,
          <<"\n", "\n", " ", "7", " ", "\n", "9">>,
          <<"1", ".", "2", "3", "4">>, <<"1", ",", "2", "3", "4">>,
          <<"1", ".", "2", "3", "4", ",", "5", "6">>}

PriceCells == Texts(MaxText) \cup Grouped \cup Words

InitParse ==
    /\ alerts = <<>>
    /\ InitIdle
    /\ InitHistory
    /\ fetch = FetchIdle
    /\ parse \in {[text |-> t, done |-> FALSE, out |-> None] : t \in PriceCells}
    /\ request = RequestIdle
    /\ engine = EngineIdle

\* price = self._parse_price(price_text)
parse_cell ==
    /\ ~parse.done
    /\ parse' = [parse EXCEPT !.done = TRUE, !.out = parse_price(parse.text)]
    /\ UNCHANGED <<alerts, clock, nextRun, jobPc, arr, jobIdx, jobRes,
                   hPc, hUser, hList, hIdx, fetch, request, engine,
                   ev, notified, fetched, manual, failed>>

NextParse == parse_cell

SpecParse == InitParse /\ [][NextParse]_vars

(***************************************************************************)
(* SpecDb: the methods of Database of src/main.py called one by one, in    *)
(* any order and with any arguments, while time passes.  hList holds what  *)
(* the last call returned: rows after list_user, nothing after the others. *)
(***************************************************************************)

DbIds == 1 .. (MaxAlerts + 1)


InitDb ==
    /\ alerts = <<>>
    /\ InitIdle
    /\ InitHistory
    /\ fetch = FetchIdle
    /\ parse = ParseIdle
    /\ request = RequestIdle
    /\ engine = EngineIdle

Database_add(user_id, price) ==
    /\ Len(alerts) < MaxAlerts
    /\ alerts' = add(alerts, user_id, <<"K", "u">>, price, clock)
    /\ ev' = Event("db_add", Len(alerts) + 1, user_id, <<"K", "u">>, Some(price), TRUE)
    /\ hList' = <<>>
    /\ UNCHANGED <<clock, nextRun, jobVars, hPc, hUser, hIdx>>

Database_list_user(user_id) ==
    /\ \E order \in ListUserOrders(alerts, user_id) :
          hList' = [i \in 1 .. Len(order) |-> UserRow(alerts, order[i])]
    /\ ev' = Event("db_list_user", 0, user_id, <<>>, None, TRUE)
    /\ UNCHANGED <<alerts, clock, nextRun, jobVars, hPc, hUser, hIdx>>

Database_set_notified(alert_id, price) ==
    /\ alerts' = set_notified(alerts, alert_id, price, clock)
    /\ ev' = Event("db_set_notified", alert_id, 0, <<>>, Some(price), TRUE)
    /\ hList' = <<>>
    /\ UNCHANGED <<clock, nextRun, jobVars, hPc, hUser, hIdx>>

Database_set_price(alert_id, price) ==
    /\ alerts' = set_price(alerts, alert_id, price, clock)
    /\ ev' = Event("db_set_price", alert_id, 0, <<>>, Some(price), TRUE)
    /\ hList' = <<>>
    /\ UNCHANGED <<clock, nextRun, jobVars, hPc, hUser, hIdx>>

Database_deactivate(alert_id, user_id) ==
    /\ alerts' = deactivate(alerts, alert_id, user_id)
    /\ ev' = Event("db_deactivate", alert_id, user_id, <<>>, None,
                   deactivate_ok(alerts, alert_id, user_id))
    /\ hList' = <<>>
    /\ UNCHANGED <<clock, nextRun, jobVars, hPc, hUser, hIdx>>

DbFrame == UNCHANGED <<fetch, parse, request, engine, notified, fetched, manual, failed>>

NextDb ==
    \/ Tick(PairTicks) /\ NoHistory /\ UNCHANGED <<fetch, parse, request, engine>>
    \/ \E u \in Users : Database_add(u, InitThreshold) /\ DbFrame
    \/ \E u \in Users : Database_list_user(u) /\ DbFrame
    \/ \E id \in DbIds : Database_set_notified(id, DbPrice) /\ DbFrame
    \/ \E id \in DbIds, p \in 1 .. DbPrice : Database_set_price(id, p) /\ DbFrame
    \/ \E id \in DbIds, u \in Users : Database_deactivate(id, u) /\ DbFrame

SpecDb == InitDb /\ [][NextDb]_vars

(***************************************************************************)
(* The scheduler of src/create_state.py: Bot.job_check_prices and the      *)
(* Database methods it calls.  Its table has the column                    *)
(* last_notification_price (0: never notified) in place of                 *)
(* last_notified_price and last_notified_at.                               *)
(***************************************************************************)

\* a row as Database.add of create_state.py stores it
cs_StoredAlert(user, item, thr, created) ==
    [user_id |-> user, item_name |-> item, threshold_price |-> thr,
     current_price |-> 0, last_check |-> 0, is_active |-> 1, created_at |-> created,
     last_notification_price |-> 0]

\* a row as all_active returns it: SELECT id, user_id, username, item_name,
\* threshold_price, last_notification_price; last_check is not selected
cs_ActiveRow(db, i) ==
    [id |-> i, user_id |-> db[i].user_id, item_name |-> db[i].item_name,
     threshold_price |-> db[i].threshold_price,
     last_notification_price |-> db[i].last_notification_price]

RECURSIVE cs_ActiveFrom(_, _)
cs_ActiveFrom(db, i) ==
    IF i > Len(db) THEN <<>>
    ELSE IF db[i].is_active = 1 THEN <<cs_ActiveRow(db, i)>> \o cs_ActiveFrom(db, i + 1)
    ELSE cs_ActiveFrom(db, i + 1)

cs_all_active(db) == cs_ActiveFrom(db, 1)

\* UPDATE alerts SET current_price=?, last_check=? WHERE id=?
cs_set_price(db, alert_id, price, now) ==
    IF alert_id \in DOMAIN db
    THEN [db EXCEPT ![alert_id].current_price = price, ![alert_id].last_check = now]
    ELSE db

\* UPDATE alerts SET last_notification_price=? WHERE id=?
update_notification_price(db, alert_id, notification_price) ==
    IF alert_id \in DOMAIN db
    THEN [db EXCEPT ![alert_id].last_notification_price = notification_price]
    ELSE db

\* should_send_notification reads last_notification_price from the table
should_send_notification(db, alert_id, current_price, threshold_price) ==
    IF alert_id \notin DOMAIN db THEN FALSE
    ELSE IF current_price > threshold_price THEN FALSE
    ELSE IF db[alert_id].last_notification_price = 0 THEN TRUE
    ELSE current_price < db[alert_id].last_notification_price

\* last = a.get("last_check", 0) or 0
cs_last(a) == IF "last_check" \in DOMAIN a THEN a.last_check ELSE 0

\* time_since_last < self.COOLDOWN
cs_InCooldown(a, now) == now - cs_last(a) < COOLDOWN

RECURSIVE cs_NextDue(_, _, _)
cs_NextDue(rows, i, now) ==
    IF i > Len(rows) THEN i
    ELSE IF cs_InCooldown(rows[i], now) THEN cs_NextDue(rows, i + 1, now)
    ELSE i

\* the loop goes on with the rows after position i
cs_JobContinue(rows, i) ==
    LET j == cs_NextDue(rows, i, clock)
    IN  IF j <= Len(rows)
        THEN /\ jobPc' = "sleep"
             /\ arr' = rows
             /\ jobIdx' = j
        ELSE /\ jobPc' = "idle"
             /\ arr' = <<>>
             /\ jobIdx' = 0

\* the job fires: arr = self.db.all_active(), then the loop up to its first await
cs_JobStart ==
    /\ jobPc = "idle"
    /\ clock >= nextRun
    /\ nextRun' = NextFire(nextRun, clock)
    /\ cs_JobContinue(cs_all_active(alerts), 1)
    /\ jobRes' = None
    /\ UNCHANGED <<alerts, clock, hVars>>

\* asyncio.sleep returns, fetch_price is called
cs_JobFetchStart ==
    /\ jobPc = "sleep"
    /\ jobPc' = "fetch"
    /\ UNCHANGED <<alerts, clock, nextRun, arr, jobIdx, jobRes, hVars>>

\* fetch_price returns res: the rest of the loop body up to the next await
cs_JobFetchDone(res) ==
    /\ jobPc = "fetch"
    /\ LET a == arr[jobIdx]
           stored == IF res.source /= "captcha" /\ res.price /= None
                     THEN cs_set_price(alerts, a.id, Val(res.price), clock)
                     ELSE alerts
           sends == /\ res.source /= "captcha"
                    /\ res.price /= None
                    /\ should_send_notification(stored, a.id, Val(res.price),
                                                a.threshold_price)
       IN  /\ alerts' = stored
           /\ jobRes' = IF sends THEN res.price ELSE None
           /\ IF res.source = "captcha"
              THEN /\ jobPc' = "send_captcha"
                   /\ UNCHANGED <<arr, jobIdx>>
              ELSE IF sends
              THEN /\ jobPc' = "send_deal"
                   /\ UNCHANGED <<arr, jobIdx>>
              ELSE cs_JobContinue(arr, jobIdx + 1)
    /\ UNCHANGED <<clock, nextRun, hVars>>

\* c.bot.send_message of the captcha notice returns (ok) or raises
cs_JobCaptchaSent(ok) ==
    /\ jobPc = "send_captcha"
    /\ cs_JobContinue(arr, jobIdx + 1)
    /\ jobRes' = None
    /\ UNCHANGED <<alerts, clock, nextRun, hVars>>

\* c.bot.send_message of the deal returns (ok), then
\* update_notification_price; or it raises
cs_JobDealSent(ok) ==
    /\ jobPc = "send_deal"
    /\ alerts' = IF ok THEN update_notification_price(alerts, arr[jobIdx].id, Val(jobRes))
                 ELSE alerts
    /\ cs_JobContinue(arr, jobIdx + 1)
    /\ jobRes' = None
    /\ UNCHANGED <<clock, nextRun, hVars>>

\* what fetch_price of create_state.py returns: it catches what its steps raise
cs_FetchResults == {res \in FetchResults : res.source /= "raise"}

(***************************************************************************)
(* SpecCSJob: the scheduler of src/create_state.py over two stored alerts, *)
(* for CycleTicks check intervals.                                         *)
(***************************************************************************)

InitCSJob ==
    /\ alerts = <<cs_StoredAlert(1, <<"K", "u">>, InitThreshold, StartTime),
                  cs_StoredAlert(2, <<"w", "x">>, InitThreshold, StartTime)>>
    /\ InitIdle
    /\ InitHistory
    /\ fetch = FetchIdle
    /\ parse = ParseIdle
    /\ request = RequestIdle
    /\ engine = EngineIdle

NextCSJob ==
    \/ Tick(CycleTicks) /\ NoHistory /\ UNCHANGED <<fetch, parse, request, engine>>
    \/ cs_JobStart /\ NoHistory /\ UNCHANGED <<fetch, parse, request, engine>>
    \/ cs_JobFetchStart /\ NoHistory /\ UNCHANGED <<fetch, parse, request, engine>>
    \/ \E res \in cs_FetchResults : cs_JobFetchDone(res) /\ NoHistory /\ UNCHANGED <<fetch, parse, request, engine>>
    \/ \E ok \in BOOLEAN : cs_JobCaptchaSent(ok) /\ NoHistory /\ UNCHANGED <<fetch, parse, request, engine>>
    \/ \E ok \in BOOLEAN : cs_JobDealSent(ok) /\ NoHistory /\ UNCHANGED <<fetch, parse, request, engine>>

SpecCSJob == InitCSJob /\ [][NextCSJob]_vars

(***************************************************************************)
(* SpecRequest: the URL fetch_price builds, for every item name of up to   *)
(* MaxName characters over letters in both cases, space and tab.           *)
(***************************************************************************)

NameAlphabet == {"K", "u", " ", "\t"}

RECURSIVE Names(_)
Names(n) ==
    IF n = 0 THEN {<<>>}
    ELSE LET shorter == Names(n - 1)
         IN  shorter \cup {Append(t, c) : t \in shorter, c \in NameAlphabet}

InitRequest ==
    /\ alerts = <<>>
    /\ InitIdle
    /\ InitHistory
    /\ fetch = FetchIdle
    /\ parse = ParseIdle
    /\ engine = EngineIdle
    /\ request \in {[RequestIdle EXCEPT !.item_name = n] : n \in Names(MaxName)}

\* item_id = await self.resolve_item_id(item_name), then the URL
build_url ==
    /\ ~request.done
    /\ LET item_id == resolve_item_id(request.item_name)
       IN  request' = [request EXCEPT !.done = TRUE,
                                      !.item_id = item_id,
                                      !.url = params(request.item_name, item_id)]
    /\ UNCHANGED <<alerts, clock, nextRun, jobPc, arr, jobIdx, jobRes,
                   hPc, hUser, hList, hIdx, fetch, parse, engine,
                   ev, notified, fetched, manual, failed>>

NextRequest == build_url

SpecRequest == InitRequest /\ [][NextRequest]_vars

(***************************************************************************)
(* SpecEngine: calls of TTC.init by the job and by the chat handler, in    *)
(* any interleaving of their awaits.                                       *)
(***************************************************************************)

InitEngine ==
    /\ alerts = <<>>
    /\ InitIdle
    /\ InitHistory
    /\ fetch = FetchIdle
    /\ parse = ParseIdle
    /\ request = RequestIdle
    /\ engine = EngineIdle

EngineFrame ==
    UNCHANGED <<alerts, clock, nextRun, jobPc, arr, jobIdx, jobRes,
                hPc, hUser, hList, hIdx, fetch, parse, request,
                ev, notified, fetched, manual, failed>>

NextEngine ==
    \/ \E t \in Tasks : init_enter(t) /\ EngineFrame
    \/ \E t \in Tasks, ok \in BOOLEAN : init_started(t, ok) /\ EngineFrame
    \/ \E t \in Tasks, ok \in BOOLEAN : init_launched(t, ok) /\ EngineFrame
    \/ \E t \in Tasks : init_return(t) /\ EngineFrame
    \/ \E t \in Tasks : fetch_price_return(t) /\ EngineFrame

SpecEngine == InitEngine /\ [][NextEngine]_vars

(***************************************************************************)
(* SpecChat: the chat operations of two users, each the owner of one of    *)
(* two stored alerts, beside the scheduler.                                *)
(***************************************************************************)

NextChat ==
    \/ Tick(PairTicks) /\ NoHistory /\ UNCHANGED <<fetch, parse, request, engine>>
    \/ JobNextQuiet
    \/ \E u \in Users, r \in CreateRequests :
          cmd_add(u, r[1], r[2], MaxAlerts) /\ LogCreate(u, r[1], r[2]) /\ UNCHANGED <<fetch, parse, request, engine>>
    \/ \E u \in Users : cmd_checknow(u) /\ NoHistory /\ UNCHANGED <<fetch, parse, request, engine>>
    \/ \E res \in FetchResults : cmd_checknow_fetched(res) /\ LogManualFetched(res) /\ UNCHANGED <<fetch, parse, request, engine>>
    \/ \E u \in Users, id \in 1 .. MaxAlerts : on_cb_check(u, id) /\ NoHistory /\ UNCHANGED <<fetch, parse, request, engine>>
    \/ \E res \in FetchResults : on_cb_check_fetched(res) /\ LogManualFetched(res) /\ UNCHANGED <<fetch, parse, request, engine>>
    \/ \E u \in Users, id \in 1 .. MaxAlerts : on_cb_del(u, id) /\ LogDel(u, id) /\ UNCHANGED <<fetch, parse, request, engine>>

SpecChat == InitPair /\ [][NextChat]_vars

(***************************************************************************)
(* SpecGold: an amount of gold is formatted by fmt_gold as the messages    *)
(* show it, and the text is read back by _parse_price.                     *)
(***************************************************************************)

\* str(n) of a natural number
RECURSIVE str(_)
str(n) ==
    IF n < 10 THEN <<Digits[n + 1]>>
    ELSE Append(str(n \div 10), Digits[(n % 10) + 1])

\* format(n, ","): the digits in groups of three from the right, "," between
RECURSIVE grouped(_)
grouped(digits) ==
    IF Len(digits) <= 3 THEN digits
    ELSE grouped(SubSeq(digits, 1, Len(digits) - 3))
            \o <<",">> \o SubSeq(digits, Len(digits) - 2, Len(digits))

\* f"{int(n):,}".replace(",", ".")
fmt_gold(n) == Replace(grouped(str(n)), ",", ".")

\* the amounts that are formatted: of one to eight digits, round, just above
\* a round amount and just below the next
Golds ==
    {d * s + r : d \in 1 .. MaxGold,
                 s \in {1, 10, 100, 1000, 10000, 100000, 1000000},
                 r \in {0, 1}}
        \cup {d * s - 1 : d \in 2 .. MaxGold,
                          s \in {10, 100, 1000, 10000, 100000, 1000000}}

InitGold ==
    /\ alerts = <<>>
    /\ InitIdle
    /\ InitHistory
    /\ fetch = FetchIdle
    /\ parse \in {[text |-> fmt_gold(n), done |-> FALSE, out |-> None] : n \in Golds}
    /\ request = RequestIdle
    /\ engine = EngineIdle

NextGold == parse_cell

SpecGold == InitGold /\ [][NextGold]_vars

-----------------------------------------------------------------------------
(* Properties of the notify policy, checked under Spec *)

JobEvalOps == {"job_listing", "job_fallback", "job_captcha", "job_error", "job_raise"}

\* the notify policy, written from the stored alert: P is the price of the
\* fetch (absent when the fetch had no listing), T the threshold and L the
\* last notified price of the stored alert
PolicySaysNotify(P, T, L) ==
    /\ P /= None
    /\ Val(P) <= T
    /\ (L = None \/ Val(P) < Val(L))

\* C1: when the scheduler has evaluated the fetch of an alert, it goes on to
\* send a deal notification for that alert, with the fetched price and to the
\* chat of the alert's owner, if and only if the fetch gave a price P with
\* P <= threshold and (lastNotifiedPrice unset or P < lastNotifiedPrice).
C1_NotifyIff ==
    ev.op \in JobEvalOps =>
        ( ( /\ jobPc = "send_deal"
            /\ arr[jobIdx].id = ev.id
            /\ arr[jobIdx].user_id = alerts[ev.id].user_id
            /\ jobRes = ev.price )
          <=> PolicySaysNotify(ev.price, alerts[ev.id].threshold_price,
                               alerts[ev.id].last_notified_price) )

\* the scheduler sends a second notification, for a price below the last notified one
C1_Witness ==
    /\ ev.op = "job_listing"
    /\ jobPc = "send_deal"
    /\ alerts[ev.id].last_notified_price /= None

\* C2: no step of the scheduler or of a chat handler raises an alert's
\* lastNotifiedPrice or unsets it: once set it only decreases.
C2_LastNotifiedNeverIncreases ==
    [][\A i \in DOMAIN alerts :
          alerts[i].last_notified_price /= None =>
              /\ alerts'[i].last_notified_price /= None
              /\ Val(alerts'[i].last_notified_price) <= Val(alerts[i].last_notified_price)]_vars

\* a delivered notification has just lowered a lastNotifiedPrice that was set
C2_Witness ==
    /\ ev.op = "job_deal_sent"
    /\ ev.ok
    /\ Len(notified[ev.id]) >= 2
    /\ alerts[ev.id].last_notified_price = ev.price

Last(seq) == seq[Len(seq)]

\* C3: the prices of the deal notifications delivered for one alert are
\* strictly decreasing and never above the threshold; a price equal to the
\* threshold notifies when nothing was notified before, a price strictly
\* below the last notified price notifies again, and a repeat of the last
\* notified price does not notify.
C3_NotifiedPricesDecrease ==
    /\ \A i \in AlertIds :
          /\ \A k \in 1 .. Len(notified[i]) : notified[i][k] <= alerts[i].threshold_price
          /\ \A k \in 1 .. Len(notified[i]) - 1 : notified[i][k + 1] < notified[i][k]
    /\ ev.op = "job_listing" =>
          /\ (notified[ev.id] = <<>> /\ Val(ev.price) = alerts[ev.id].threshold_price)
                => jobPc = "send_deal"
          /\ (notified[ev.id] /= <<>> /\ Val(ev.price) < Last(notified[ev.id]))
                => jobPc = "send_deal"
          /\ (notified[ev.id] /= <<>> /\ Val(ev.price) = Last(notified[ev.id]))
                => jobPc /= "send_deal"

\* a notification at the threshold was delivered, then one at a lower price
C3_Witness ==
    /\ Len(notified[1]) = 2
    /\ notified[1][1] = alerts[1].threshold_price
    /\ notified[1][2] < notified[1][1]

NotifiedFields(db) ==
    [i \in DOMAIN db |-> <<db[i].last_notified_price, db[i].last_notified_at>>]

\* C4: a scheduler step that delivers the deal notification for price P sets
\* the alert's lastNotifiedPrice to P and its lastNotifiedAt to the current
\* time and leaves these fields of every other alert alone; every other
\* scheduler step (a fetch without notification, a captcha notice, a deal
\* message that could not be sent) leaves both fields of every alert unchanged.
C4_NotifyFrame ==
    [][jobPc' /= jobPc =>
          IF jobPc = "send_deal" /\ ev'.ok
          THEN /\ alerts'[ev'.id].last_notified_price = jobRes
               /\ alerts'[ev'.id].last_notified_at = clock
               /\ \A i \in DOMAIN alerts :
                     i /= ev'.id => NotifiedFields(alerts')[i] = NotifiedFields(alerts)[i]
          ELSE NotifiedFields(alerts') = NotifiedFields(alerts)]_vars

\* a notification was delivered in a later cycle than the first one
C4_Witness ==
    /\ ev.op = "job_deal_sent"
    /\ ev.ok
    /\ alerts[ev.id].last_notified_at = clock
    /\ clock > StartTime + TickLen

-----------------------------------------------------------------------------
(* Properties of the alert table *)

ActiveOf(db, user) == {i \in DOMAIN db : db[i].user_id = user /\ db[i].is_active = 1}

\* user has an active alert whose item equals item up to letter case
HoldsItem(db, user, item) ==
    \E i \in ActiveOf(db, user) : lower(db[i].item_name) = lower(item)

\* C5: when the scheduler decides to fetch an alert (it passes the cooldown
\* test and the cycle goes on to its fetch), the stored alert is not in
\* cooldown: now - lastCheckedAt >= cooldown.  An alert in cooldown is
\* skipped.
C5_CooldownSkips ==
    [][(jobPc' = "sleep" /\ jobPc /= "sleep") =>
          clock' - alerts'[arr'[jobIdx'].id].last_check >= COOLDOWN]_vars

\* C7: an owner never has two active alerts whose items are equal up to
\* letter case, and a create request for an item the owner already has an
\* active alert for fails and leaves the table unchanged.
C7_OneActivePerItem ==
    /\ \A i, j \in DOMAIN alerts :
          ( /\ i /= j
            /\ alerts[i].is_active = 1
            /\ alerts[j].is_active = 1
            /\ alerts[i].user_id = alerts[j].user_id )
          => lower(alerts[i].item_name) /= lower(alerts[j].item_name)
    /\ [][(ev'.op = "add" /\ HoldsItem(alerts, ev'.user, ev'.item)) =>
            (~ev'.ok /\ alerts' = alerts)]_vars

\* a create request for an item in other letter case was refused, the first alert is active
C7_Witness ==
    /\ ev.op = "add"
    /\ ~ev.ok
    /\ \E i \in ActiveOf(alerts, ev.user) :
          alerts[i].item_name /= ev.item /\ lower(alerts[i].item_name) = lower(ev.item)
    /\ ev.price /= None
    /\ Val(ev.price) > 0

\* C8: no owner has more than 15 active alerts, and a create request of an
\* owner who has 15 active alerts fails and leaves the table unchanged.
C8_AtMostFifteen ==
    /\ \A u \in Users : Cardinality(ActiveOf(alerts, u)) <= MAX_USER_ALERTS
    /\ [][(ev'.op = "add" /\ Cardinality(ActiveOf(alerts, ev'.user)) >= MAX_USER_ALERTS) =>
            (~ev'.ok /\ alerts' = alerts)]_vars

\* a create request for a new item was refused at 15 active alerts
C8_Witness ==
    /\ ev.op = "add"
    /\ ~ev.ok
    /\ Cardinality(ActiveOf(alerts, ev.user)) = MAX_USER_ALERTS
    /\ ~HoldsItem(alerts, ev.user, ev.item)

\* C9: every alert's threshold is > 0 and no step changes the threshold of
\* an alert; a create request whose price text is not a number or is a
\* number <= 0 fails and leaves the table unchanged.
C9_ThresholdPositive ==
    /\ \A i \in DOMAIN alerts : alerts[i].threshold_price > 0
    /\ [][/\ \A i \in DOMAIN alerts :
               /\ i \in DOMAIN alerts'
               /\ alerts'[i].threshold_price = alerts[i].threshold_price
          /\ (ev'.op = "add" /\ (ev'.price = None \/ Val(ev'.price) <= 0)) =>
               (~ev'.ok /\ alerts' = alerts)]_vars

\* a create request with price 0 was refused while the table holds an alert
C9_Witness ==
    /\ ev.op = "add"
    /\ ev.price = Some(0)
    /\ ~ev.ok
    /\ Len(ev.item) >= 2
    /\ alerts /= <<>>

\* C10: a delete request for an alert of another owner returns false and
\* changes nothing in the table.
C10_DeactivateWrongOwner ==
    [][(/\ ev'.op = "del"
        /\ ev'.id \in DOMAIN alerts
        /\ alerts[ev'.id].user_id /= ev'.user) =>
          (~ev'.ok /\ alerts' = alerts)]_vars

\* a delete request for another owner's active alert was refused
C10_Witness ==
    /\ ev.op = "del"
    /\ ~ev.ok
    /\ ev.id \in DOMAIN alerts
    /\ alerts[ev.id].user_id /= ev.user
    /\ alerts[ev.id].is_active = 1

\* C11: a delete request returns false and changes nothing unless the alert
\* is owned by the requester and currently active; in particular a second
\* delete of an already inactive alert by its owner returns false.
C11_DeactivateOnlyOwnedActive ==
    [][(/\ ev'.op = "del"
        /\ ~(/\ ev'.id \in DOMAIN alerts
             /\ alerts[ev'.id].user_id = ev'.user
             /\ alerts[ev'.id].is_active = 1)) =>
          (~ev'.ok /\ alerts' = alerts)]_vars

\* C12: the scheduler step that takes a fetch result with outcome
\* ChallengeRequired (captcha) or Failure (error, or an exception out of
\* fetch_price) changes no field of any alert.
C12_FailureMutatesNothing ==
    [][(jobPc = "fetch" /\ ev'.op \in {"job_captcha", "job_error", "job_raise"}) =>
          alerts' = alerts]_vars

\* a scheduler fetch failed for an alert that has a price, a check time and a notification stored
C12_Witness ==
    /\ ev.op \in {"job_captcha", "job_error", "job_raise"}
    /\ alerts[ev.id].last_check > 0
    /\ alerts[ev.id].last_notified_at > 0
    /\ alerts[ev.id].current_price > 0

\* the snapshot row at position k is skipped by the cooldown test at time now
SkippedRow(rows, k, now) == now - rows[k].last_check < COOLDOWN

\* C13: when a scheduler fetch yields ChallengeRequired, the scheduler goes
\* on to send the captcha notice for that alert and no deal notification;
\* the captcha notice is sent once, to the chat of the alert's owner, only
\* after such a fetch; and after it (delivered or not) the cycle continues
\* with the next row of the snapshot that is not in cooldown, or ends when
\* there is none.  No alert changes in these steps.
C13_CaptchaNotice ==
    [][/\ ev'.op = "job_captcha" =>
            /\ jobPc = "fetch"
            /\ jobPc' = "send_captcha"
            /\ arr' = arr /\ jobIdx' = jobIdx
            /\ ev'.id = arr[jobIdx].id
            /\ jobRes' = None
            /\ alerts' = alerts
       /\ (jobPc' = "send_captcha" /\ jobPc /= "send_captcha") => ev'.op = "job_captcha"
       /\ ev'.op = "job_captcha_sent" => jobPc = "send_captcha"
       /\ (jobPc = "send_captcha" /\ jobPc' /= jobPc) =>
            /\ ev'.op = "job_captcha_sent"
            /\ ev'.id = arr[jobIdx].id
            /\ ev'.user = alerts[ev'.id].user_id
            /\ alerts' = alerts
            /\ notified' = notified
            /\ jobPc' \in {"sleep", "idle"}
            /\ jobPc' = "sleep" =>
                  /\ arr' = arr
                  /\ jobIdx' > jobIdx
                  /\ ~SkippedRow(arr, jobIdx', clock)
                  /\ \A k \in (jobIdx + 1) .. (jobIdx' - 1) : SkippedRow(arr, k, clock)
            /\ jobPc' = "idle" =>
                  \A k \in (jobIdx + 1) .. Len(arr) : SkippedRow(arr, k, clock)]_vars

\* the captcha notice for one alert could not be delivered and the cycle is at the next alert
C13_Witness ==
    /\ ev.op = "job_captcha_sent"
    /\ ~ev.ok
    /\ jobPc = "sleep"
    /\ arr[jobIdx].id /= ev.id

\* the cycle that starts in this step will fetch alert i: the job reads its
\* snapshot and the row of i is at or after the first row that is due, and due itself
FetchedInNewCycle(i) ==
    /\ jobPc' = "sleep"
    /\ \E k \in jobIdx' .. Len(arr') : arr'[k].id = i /\ ~SkippedRow(arr', k, clock')

\* C14, as stated: when a scheduler cycle starts, every active alert whose
\* scheduler fetch in the cycle before ended in ChallengeRequired or Failure
\* is fetched in the new cycle.
C14_RetriedNextCycle ==
    [][nextRun' /= nextRun =>
          \A i \in DOMAIN alerts :
              (alerts[i].is_active = 1 /\ i \in failed)
              => FetchedInNewCycle(i)]_vars

\* C14, amended: when a scheduler cycle starts, every active alert whose
\* scheduler fetch in the cycle before ended in ChallengeRequired or Failure
\* is fetched in the new cycle, provided no manual check has stored a price for it (which sets
\* lastCheckedAt) since the cycle of the failed fetch began.
C14_RetriedUnlessCheckedManually ==
    [][nextRun' /= nextRun =>
          \A i \in DOMAIN alerts :
              (alerts[i].is_active = 1 /\ i \in failed /\ i \notin manual)
              => FetchedInNewCycle(i)]_vars

\* one check interval after a failed fetch of an alert with a stored check time,
\* the next cycle is about to fetch the alert again
C14_Witness ==
    /\ jobPc = "sleep"
    /\ fetched[arr[jobIdx].id] /= None
    /\ Val(fetched[arr[jobIdx].id]).source \in FailedSources
    /\ clock - Val(fetched[arr[jobIdx].id]).start = CHECK_INTERVAL
    /\ arr[jobIdx].last_check > 0
    /\ manual = {}
    /\ failed = {}


-----------------------------------------------------------------------------
(* Properties of the scraping client *)

\* C15: in unattended mode (fetch_price called with headless=True) a detected
\* challenge opens no visible session, is followed by no clearance poll and
\* by no write of the Session Artifact, and the call returns ChallengeRequired.
C15_UnattendedNeverSolves ==
    (fetch.headless /\ fetch.challenge) =>
        /\ ~fetch.visible
        /\ fetch.polls = 0
        /\ ~fetch.artifact
        /\ fetch.pc = "returned" => Val(fetch.res).source = "captcha"

\* C16: in interactive mode (fetch_price called with headless=False) a call
\* that detected a challenge and did not fail has opened a visible session
\* and polled for clearance; it returns ChallengeRequired only after all
\* polls, and otherwise it has written the Session Artifact before extracting.
C16_InteractiveSolves ==
    ( /\ fetch.pc = "returned"
      /\ ~fetch.headless
      /\ fetch.challenge
      /\ Val(fetch.res).source /= "error" ) =>
        /\ fetch.visible
        /\ fetch.polls > 0
        /\ Val(fetch.res).source = "captcha" => fetch.polls = MAX_POLLS
        /\ Val(fetch.res).source /= "captcha" => fetch.artifact

\* C17: the poll loop makes at most 120 polls with one sleep of 2 s after every
\* poll that found the challenge still there; it is left either because a poll
\* found the challenge gone or after the 120th poll with the result
\* ChallengeRequired; and it is always left.
C17_PollLoopBounded ==
    /\ [](fetch.polls <= MAX_POLLS)
    /\ [](fetch.pc = "cs_poll" => fetch.waited = POLL_SLEEP * fetch.polls)
    /\ [][(fetch.pc = "cs_poll" /\ fetch'.pc /= "cs_poll") =>
             \/ fetch'.pc = "cs_save"
             \/ /\ fetch'.polls = MAX_POLLS
                /\ fetch'.waited = POLL_SLEEP * MAX_POLLS
                /\ fetch'.pc = "cs_cleanup"
                /\ Val(fetch'.res).source = "captcha"]_vars
    /\ (fetch.pc = "cs_poll") ~> (fetch.pc /= "cs_poll")

\* the loop was left after its last poll
C17_Witness ==
    /\ fetch.pc = "cs_cleanup"
    /\ fetch.polls = MAX_POLLS
    /\ Val(fetch.res).source = "captcha"

\* the positions of the rows that extraction considers and that have a price
ParsedRows(rows) ==
    {i \in 1 .. Len(rows) : /\ i <= ROW_LIMIT
                            /\ rows[i].price_cell = "ok"
                            /\ rows[i].parsed /= None}

\* the lowest price among the rows at the positions P
MinPrice(rows, P) ==
    CHOOSE p \in {Val(rows[i].parsed) : i \in P} :
        \A i \in P : p <= Val(rows[i].parsed)

\* C18, as stated: the result's price is the minimum over the rows with a
\* price among the first 15, its seller and location are those of a row with
\* that price, and without such a row the result is NoListing.
C18_MinimumWithSeller ==
    fetch.res /= None =>
        LET r == Val(fetch.res)
            P == ParsedRows(fetch.rows)
        IN  IF P = {}
            THEN r.source = "fallback" /\ r.price = None
            ELSE /\ r.source = "listing"
                 /\ r.price = Some(MinPrice(fetch.rows, P))
                 /\ \E i \in P :
                       /\ Val(fetch.rows[i].parsed) = MinPrice(fetch.rows, P)
                       /\ r.guild = Some(fetch.rows[i].guild)
                       /\ r.loc = Some(fetch.rows[i].loc)

\* seller and location as far as the cells of row r can be read
ReadSeller(r) ==
    IF r.details = "short" THEN None
    ELSE IF r.details \in {"ok", "raise_loc"} THEN Some(r.guild)
    ELSE Some(Unknown)

ReadLocation(r) ==
    IF r.details = "short" THEN None
    ELSE IF r.details = "ok" THEN Some(r.loc)
    ELSE Some(Unknown)

\* C18, amended: the result's price is the minimum over the rows with a price
\* among the first 15; seller and location are those of the first row with
\* that price as far as its cells can be read: both absent when the row has
\* fewer than three cells, the placeholder for what a failed read left out;
\* without a row with a price the result is NoListing.
C18_MinimumWithReadableSeller ==
    fetch.res /= None =>
        LET r == Val(fetch.res)
            P == ParsedRows(fetch.rows)
        IN  IF P = {}
            THEN r = FetchResult("fallback", None, None, None)
            ELSE LET m == MinPrice(fetch.rows, P)
                     w == CHOOSE i \in P :
                              /\ Val(fetch.rows[i].parsed) = m
                              /\ \A j \in P : Val(fetch.rows[j].parsed) = m => i <= j
                 IN  r = FetchResult("listing", Some(m), ReadSeller(fetch.rows[w]),
                                     ReadLocation(fetch.rows[w]))

\* a page longer than 15 rows whose 16th row is cheaper than every row before
\* it, and one of whose first 15 rows has no price: the result is the dearer price
C18_Witness ==
    /\ fetch.res /= None
    /\ Len(fetch.rows) > ROW_LIMIT
    /\ RowPrice(fetch.rows[ROW_LIMIT + 1]) = Some(1)
    /\ Val(fetch.res).price = Some(2)
    /\ \E i \in 1 .. ROW_LIMIT : RowPrice(fetch.rows[i]) = None

\* C19: once fetch_price has returned or raised, no page and no browsing
\* context that the call opened is open.
C19_AllReleased ==
    fetch.pc \in {"returned", "raised"} =>
        (fetch.page /= "open" /\ fetch.context /= "open")

\* C20: fetch_price never raises to its caller, and a call that is over has
\* returned a result.
C20_NeverRaises ==
    /\ fetch.pc /= "raised"
    /\ fetch.pc = "returned" => fetch.res /= None

-----------------------------------------------------------------------------
(* Properties of the scheduler's cycle under failures *)

\* the job's events that report an error while one alert was processed
JobErrorOps == {"job_error", "job_raise", "job_store_error", "job_notified_store_error"}

C22_SequentialAndReleased ==
    [][(jobPc' = "fetch" /\ fetch'.pc = "init") =>
          /\ jobPc = "sleep"
          /\ fetch.pc \in {"idle", "returned", "raised"}
          /\ fetch.page /= "open"
          /\ fetch.context /= "open"]_vars


-----------------------------------------------------------------------------
(* Properties of the price parser, checked under SpecParse *)

\* the first non-blank line of a text, <<>> if it has none
FirstLine(text) == IF lines(text) = <<>> THEN <<>> ELSE lines(text)[1]

\* the cleaned line: the digits and separators of the first line
Cleaned(text) ==
    SelectSeq(FirstLine(text), LAMBDA c : IsDigit(c) \/ c \in {".", ","})

\* the number a string of digits stands for, nothing for no digits
Number(ds) == IF ds = <<>> THEN None ELSE Some(DigitsToNat(ds, 0))

\* a decimal number cut to its whole part: what stands before the point
Truncated(c, point) ==
    LET parts == split(c, point, <<>>)
    IN  IF Len(parts) /= 2 \/ (parts[1] = <<>> /\ parts[2] = <<>>) THEN None
        ELSE Some(DigitsToNat(parts[1], 0))

\* the separator rules on a cleaned line
SeparatorRules(c) ==
    LET dots == Count(c, ".")
        commas == Count(c, ",")
    IN  IF dots = 1 /\ commas = 0
        THEN IF Len(split(c, ".", <<>>)[2]) = 3 THEN Number(Remove(c, "."))
             ELSE Truncated(c, ".")
        ELSE IF dots > 1 /\ commas = 0 THEN Number(Remove(c, "."))
        ELSE IF commas > 0 /\ dots = 0 THEN Number(Remove(c, ","))
        ELSE IF commas > 0 /\ dots > 0 THEN Truncated(Remove(c, "."), ",")
        ELSE Number(c)

\* the price the rules give: the number if it is positive
PriceByRules(text) == positive(SeparatorRules(Cleaned(text)))

Text_1_234 == <<"1", ".", "2", "3", "4">>
Text_1c234 == <<"1", ",", "2", "3", "4">>
Text_1_234c56 == <<"1", ".", "2", "3", "4", ",", "5", "6">>
Text_12_5 == <<"1", "2", ".", "5">>

\* C23: for every text, _parse_price gives what the separator rules give on
\* the cleaned first line: a single '.' before exactly 3 digits is dropped, a
\* single '.' otherwise is the decimal point and the value is truncated,
\* several '.' are dropped, ',' without '.' is dropped, with both '.' is
\* dropped and ',' is the decimal point, with neither the digits are read as
\* they are; "1.234" and "1,234" give 1234, "1.234,56" gives 1234, "12.5"
\* gives 12.
C23_SeparatorRules ==
    parse.done =>
        /\ parse.out = PriceByRules(parse.text)
        /\ parse.text \in {Text_1_234, Text_1c234, Text_1_234c56}
              => parse.out = Some(1234)
        /\ parse.text = Text_12_5 => parse.out = Some(12)

\* on every text whose first line holds no tab the rules are what is computed
RulesWithoutTab ==
    (parse.done /\ Count(FirstLine(parse.text), "\t") = 0)
        => parse.out = PriceByRules(parse.text)


\* C24: _parse_price is total: whatever the text, the call returns (a
\* conversion that raises gives nothing), and what it returns is nothing or a
\* whole number above 0, never 0 and never a negative number; "", "abc" and
\* "0" give nothing.
C24_NullOrPositive ==
    parse.done =>
        /\ \/ parse.out = None
           \/ Len(parse.out) = 1 /\ Val(parse.out) \in Nat /\ Val(parse.out) > 0
        /\ parse.text \in {<<>>, <<"a", "b", "c">>, <<"0">>} => parse.out = None

\* a text whose number is 0 was parsed and gave nothing
C24_Witness ==
    /\ parse.done
    /\ parse.text /= <<>>
    /\ candidate(clean_text(FirstLine(parse.text))) = Some(0)
    /\ parse.out = None


\* a line is blank if it holds whitespace only
Blank(line) == \A i \in 1 .. Len(line) : IsSpace(line[i])

\* the first line of a text that is not blank, as it stands in the text;
\* <<>> for a text that has none
FirstNonBlank(text) ==
    LET segs == split(text, "\n", <<>>)
        filled == {i \in 1 .. Len(segs) : ~Blank(segs[i])}
    IN  IF filled = {} THEN <<>>
        ELSE segs[CHOOSE i \in filled : \A j \in filled : i <= j]

\* C25: only the first non-blank line of the text determines the result: the
\* text gives what its first non-blank line alone gives, whatever the lines
\* after it (and the blank lines before it) hold.
C25_FirstLineOnly ==
    parse.done => parse.out = parse_price(FirstNonBlank(parse.text))

\* a text was parsed whose second line reads as another price than its first
C25_Witness ==
    /\ parse.done
    /\ Len(lines(parse.text)) >= 2
    /\ parse_price(lines(parse.text)[2]) /= None
    /\ parse.out /= None
    /\ parse.out /= parse_price(lines(parse.text)[2])


-----------------------------------------------------------------------------
(* Properties of the Database methods, checked under SpecDb *)

\* the columns of a row that set_price does not name
KeptBySetPrice(row) ==
    [user_id |-> row.user_id, item_name |-> row.item_name,
     threshold_price |-> row.threshold_price, is_active |-> row.is_active,
     created_at |-> row.created_at,
     last_notified_price |-> row.last_notified_price,
     last_notified_at |-> row.last_notified_at]

\* C26: set_price sets current_price and last_check of the row with the given
\* id, whatever they were and whether the row is active or not, and changes
\* nothing else: no other column of that row, no other row, no row added or
\* removed.
C26_SetPriceFrame ==
    [][ev'.op = "db_set_price" =>
          /\ DOMAIN alerts' = DOMAIN alerts
          /\ \A j \in DOMAIN alerts :
                IF j = ev'.id
                THEN /\ alerts'[j].current_price = Val(ev'.price)
                     /\ alerts'[j].last_check = clock
                     /\ KeptBySetPrice(alerts'[j]) = KeptBySetPrice(alerts[j])
                ELSE alerts'[j] = alerts[j]]_vars

\* set_price has written a new price over an older one, in a row that is
\* inactive and carries a notified price, next to another row
C26_Witness ==
    /\ ev.op = "db_set_price"
    /\ Len(alerts) = MaxAlerts
    /\ ev.id \in DOMAIN alerts
    /\ alerts[ev.id].is_active = 0
    /\ alerts[ev.id].last_notified_price /= None
    /\ alerts[ev.id].current_price = DbPrice
    /\ alerts[ev.id].last_check > StartTime


\* the ids of the rows the last list_user returned, in their order
Listed == [i \in 1 .. Len(hList) |-> hList[i].id]

\* what list_user returned is exactly the active rows of the owner, each once
ListedActiveOwned ==
    ev.op = "db_list_user" =>
        /\ {Listed[i] : i \in 1 .. Len(Listed)} =
              {j \in DOMAIN alerts : alerts[j].is_active = 1 /\ alerts[j].user_id = ev.user}
        /\ \A i, j \in 1 .. Len(Listed) : i /= j => Listed[i] /= Listed[j]

\* C27: list_user returns exactly the rows that are active and owned by the
\* owner, never an inactive row, never a row of another owner, and in the
\* order newest first: a row created after another stands before it (ids are
\* given in the order of creation).
C27_ActiveOwnedNewestFirst ==
    /\ ListedActiveOwned
    /\ ev.op = "db_list_user" =>
          \A i, j \in 1 .. Len(Listed) : i < j => Listed[i] > Listed[j]

\* list_user returns its rows in the order of the second of their creation,
\* latest second first
ListedBySecond ==
    /\ ListedActiveOwned
    /\ ev.op = "db_list_user" =>
          \A i, j \in 1 .. Len(Listed) :
              i < j => alerts[Listed[i]].created_at >= alerts[Listed[j]].created_at


\* C28: alerts are only soft-deleted: no method removes a row (every row stays
\* in the table, as the alert of the same owner and item), deactivate changes
\* nothing but the active flag, which it clears, and a row that is inactive
\* stays inactive.
C28_SoftDeleteOnly ==
    [][/\ Len(alerts') >= Len(alerts)
       /\ \A j \in DOMAIN alerts :
             /\ alerts'[j].user_id = alerts[j].user_id
             /\ alerts'[j].item_name = alerts[j].item_name
             /\ alerts'[j].created_at = alerts[j].created_at
             /\ alerts[j].is_active = 0 => alerts'[j].is_active = 0
       /\ ev'.op = "db_deactivate" =>
             /\ Len(alerts') = Len(alerts)
             /\ \A j \in DOMAIN alerts :
                   /\ alerts'[j] = [alerts[j] EXCEPT !.is_active = alerts'[j].is_active]
                   /\ alerts'[j].is_active \in {0, alerts[j].is_active}]_vars

\* an alert that carries a price and a notified price was deactivated by its
\* owner and is still stored, with its data
C28_Witness ==
    /\ ev.op = "db_deactivate"
    /\ ev.ok
    /\ ev.id \in DOMAIN alerts
    /\ alerts[ev.id].is_active = 0
    /\ alerts[ev.id].current_price > 0
    /\ alerts[ev.id].last_notified_price /= None


-----------------------------------------------------------------------------
(* Properties of the results of fetch_price, checked under SpecFetch *)

\* the outcomes a result can name: Listing, NoListing, ChallengeRequired and
\* Failure
Outcomes == {"listing", "fallback", "captcha", "error"}

\* C29: every result of fetch_price names one of the four outcomes, and it
\* carries a price, which is then above 0, exactly if the outcome is Listing.
C29_OutcomeAndPrice ==
    fetch.res /= None =>
        LET res == Val(fetch.res)
        IN  /\ res.source \in Outcomes
            /\ res.price /= None <=> res.source = "listing"
            /\ res.price /= None => Val(res.price) > 0

\* a call has returned a listing with its price
C29_Witness ==
    /\ fetch.pc = "returned"
    /\ fetch.res /= None
    /\ Val(fetch.res).source = "listing"
    /\ Val(fetch.res).price = Some(MaxPrice)


-----------------------------------------------------------------------------
(* Properties of the scheduler of create_state.py, checked under SpecCSJob *)

\* C30: the scheduler of create_state.py applies the cooldown: while the last
\* check of an alert is less than COOLDOWN seconds old, no cycle sleeps before
\* or runs a fetch for it, so the alert is neither fetched nor written.
C30_CooldownSkips ==
    jobPc \in {"sleep", "fetch"} =>
        clock - alerts[arr[jobIdx].id].last_check >= COOLDOWN


-----------------------------------------------------------------------------
(* Properties of the request of fetch_price, checked under SpecRequest *)

\* the URL carries the parameter key=value
Carries(url, key, value) ==
    \E i \in 1 .. Len(url) : url[i].key = key /\ url[i].value = value

\* the URL carries a parameter of that key
HasParam(url, key) == \E i \in 1 .. Len(url) : url[i].key = key

\* the name filter, the sell-side filter and the ascending price sort
FixedFilters(url, item_name) ==
    /\ Carries(url, "ItemNamePattern", quote(item_name))
    /\ Carries(url, "TradeType", "Sell")
    /\ Carries(url, "SortBy", "Price")
    /\ Carries(url, "Order", "asc")

\* the name trimmed and case-folded
TrimmedFolded(item_name) == lower(strip(item_name))

\* the words of a name: its pieces between whitespace
RECURSIVE WordsOf(_, _)
WordsOf(s, cur) ==
    IF s = <<>> THEN (IF cur = <<>> THEN <<>> ELSE <<cur>>)
    ELSE IF IsSpace(Head(s))
    THEN (IF cur = <<>> THEN <<>> ELSE <<cur>>) \o WordsOf(Tail(s), <<>>)
    ELSE WordsOf(Tail(s), Append(cur, Head(s)))

RECURSIVE JoinWords(_)
JoinWords(ws) ==
    IF ws = <<>> THEN <<>>
    ELSE IF Len(ws) = 1 THEN ws[1]
    ELSE ws[1] \o <<" ">> \o JoinWords(Tail(ws))

\* the name case-folded, its words separated by one space each
WordsFolded(item_name) == lower(JoinWords(WordsOf(item_name, <<>>)))

\* the request carries the id filter exactly when the index has the key, and
\* then the id stored under it
IdFilterByKey(url, key) ==
    IF key \in DOMAIN item_index
    THEN Carries(url, "ItemID", item_index[key])
    ELSE ~HasParam(url, "ItemID")

-----------------------------------------------------------------------------
(* Properties of the scheduler beside the chat handlers *)

\* C32: the job never issues a deal message for an alert that is inactive at
\* that moment, and never writes last_notified_price of an inactive alert,
\* also when the owner deactivates the alert between the snapshot of
\* all_active and the turn of that alert.
C32_NoDealForInactive ==
    [][/\ (jobPc = "fetch" /\ jobPc' = "send_deal")
             => alerts[arr[jobIdx].id].is_active = 1
       /\ \A i \in DOMAIN alerts :
             alerts'[i].last_notified_price /= alerts[i].last_notified_price
                => alerts[i].is_active = 1]_vars


-----------------------------------------------------------------------------
(* Properties of the shared browser engine, checked under SpecEngine *)

\* C33: whatever the interleaving of the calls of init by the job and by the
\* chat handler, at most one driver and at most one browser are ever started,
\* and once a call of init has returned there is exactly one of each, the one
\* self.playwright and self.browser refer to: none is orphaned.
C33_StartedOnce ==
    /\ engine.drivers <= 1
    /\ engine.browsers <= 1
    /\ (\E t \in Tasks : engine.pc[t] = "done") =>
          /\ engine.drivers = 1 /\ engine.playwright = 1
          /\ engine.browsers = 1 /\ engine.browser = 1


-----------------------------------------------------------------------------
(* Properties of the notified fields under failing sends and chat commands *)

\* C34: lastNotifiedPrice and lastNotifiedAt of an alert are written only by
\* the step in which the notifier call for that alert has returned
\* successfully; a step in which sending raises leaves the notified fields of
\* every alert unchanged.
C34_WrittenAfterSend ==
    [][/\ \A i \in DOMAIN alerts :
             NotifiedFields(alerts')[i] /= NotifiedFields(alerts)[i]
                => /\ jobPc = "send_deal" /\ jobPc' /= jobPc
                   /\ ev'.op = "job_deal_sent" /\ ev'.ok /\ ev'.id = i
       /\ (jobPc = "send_deal" /\ jobPc' /= jobPc /\ ~ev'.ok)
             => NotifiedFields(alerts') = NotifiedFields(alerts)]_vars

\* sending has raised for an alert that was never notified, and it still has
\* no notified price
C34_Witness ==
    /\ ev.op = "job_deal_sent"
    /\ ~ev.ok
    /\ ev.price /= None
    /\ alerts[ev.id].last_notified_price = None
    /\ alerts[ev.id].current_price = Val(ev.price)


\* C35: every alert whose lastNotifiedPrice is set has
\* 0 < lastNotifiedPrice <= thresholdPrice.
C35_NotifiedWithinThreshold ==
    \A i \in DOMAIN alerts :
        alerts[i].last_notified_price /= None
           => /\ 0 < Val(alerts[i].last_notified_price)
              /\ Val(alerts[i].last_notified_price) <= alerts[i].threshold_price

\* an alert has been notified at a price equal to its threshold
C35_Witness ==
    \E i \in DOMAIN alerts :
        /\ alerts[i].last_notified_price = Some(alerts[i].threshold_price)
        /\ notified[i] /= <<>>

\* the stored alert a with its observed price and check time taken from b
WithObserved(a, b) ==
    [a EXCEPT !.current_price = b.current_price, !.last_check = b.last_check]

\* C36: a step of a manual check (/checknow or the check-now button) changes
\* at most the observed price and the check time of stored alerts; it never
\* changes lastNotifiedPrice or lastNotifiedAt, nor any other field.
C36_ManualCheckFrame ==
    [][(hPc \in {"cn_fetch", "cb_fetch"} \/ hPc' \in {"cn_fetch", "cb_fetch"})
          /\ <<hPc, hUser, hList, hIdx>>' /= <<hPc, hUser, hList, hIdx>>
          => /\ DOMAIN alerts' = DOMAIN alerts
             /\ \A i \in DOMAIN alerts :
                   /\ alerts'[i] = WithObserved(alerts[i], alerts'[i])
                   /\ alerts'[i].last_notified_price = alerts[i].last_notified_price
                   /\ alerts'[i].last_notified_at = alerts[i].last_notified_at]_vars

\* a manual check has stored a price below the price the alert was last
\* notified at, and the notified price is still the old one
C36_Witness ==
    \E i \in manual :
        /\ alerts[i].last_notified_price /= None
        /\ alerts[i].current_price < Val(alerts[i].last_notified_price)
        /\ alerts[i].last_check > alerts[i].last_notified_at


-----------------------------------------------------------------------------
(* Properties of the chat operations of two users, checked under SpecChat *)

\* the step is a step of a chat operation
ChatStep ==
    \/ ev'.op \in {"add", "del"}
    \/ <<hPc, hUser, hList, hIdx>>' /= <<hPc, hUser, hList, hIdx>>

\* the user whose chat operation takes the step
Requester ==
    IF ev'.op \in {"add", "del"} THEN ev'.user
    ELSE IF hUser /= 0 THEN hUser
    ELSE hUser'

\* C37: no step of a chat operation of a user (add, delete button, check-now
\* button, /checknow) changes any field of a stored alert owned by a
\* different user.
C37_OnlyOwnAlerts ==
    [][ChatStep =>
          \A i \in DOMAIN alerts :
              alerts[i].user_id /= Requester
                 => (i \in DOMAIN alerts' /\ alerts'[i] = alerts[i])]_vars

\* a user has pressed the delete button of the other user's active alert,
\* after a manual check of that user's own alert stored a price; the other
\* user's alert is still active and has no observed price
C37_Witness ==
    /\ ev.op = "del"
    /\ ev.id \in DOMAIN alerts
    /\ alerts[ev.id].user_id /= ev.user
    /\ alerts[ev.id].is_active = 1
    /\ alerts[ev.id].current_price = 0
    /\ \E i \in DOMAIN alerts :
          alerts[i].user_id = ev.user /\ i \in manual /\ alerts[i].current_price > 0


-----------------------------------------------------------------------------
(* Properties of one scheduler cycle, checked under SpecLive *)

\* the rows lo .. hi of the snapshot are skipped by the cooldown test now
Skipped(rows, lo, hi) == \A k \in lo .. hi : InCooldown(rows[k], clock)

\* a step of the job within the snapshot: the snapshot stays, a fetch starts
\* for the row at jobIdx only, and the job leaves a row only after its fetch,
\* for a later row, all rows passed over being skipped
OnePass ==
    jobPc' /= jobPc =>
       CASE jobPc = "idle" ->
               jobPc' = "sleep" /\ Skipped(arr', 1, jobIdx' - 1)
         [] jobPc = "sleep" ->
               jobPc' = "fetch" /\ arr' = arr /\ jobIdx' = jobIdx
         [] jobPc' \in {"send_captcha", "send_deal"} ->
               jobPc = "fetch" /\ arr' = arr /\ jobIdx' = jobIdx
         [] jobPc' = "sleep" ->
               arr' = arr /\ jobIdx' > jobIdx /\ Skipped(arr, jobIdx + 1, jobIdx' - 1)
         [] OTHER ->
               jobPc' = "idle" /\ Skipped(arr, jobIdx + 1, Len(arr))

\* C38: every scheduler cycle terminates, and within one cycle each alert of
\* the snapshot is either skipped or fetched exactly once, whatever the
\* outcomes of the fetches, of the stores and of the sends.
C38_CycleTerminates ==
    /\ [][OnePass]_vars
    /\ (jobPc /= "idle") ~> (jobPc = "idle")

\* a cycle over both alerts has ended: the fetch of one failed, the fetch of
\* the other returned a listing
C38_Witness ==
    /\ jobPc = "idle"
    /\ \E i, j \in DOMAIN alerts :
          /\ i \in failed
          /\ fetched[j] /= None
          /\ Val(fetched[j]).listing
          /\ fetched[i] /= None
          /\ Val(fetched[i]).start >= nextRun - CHECK_INTERVAL
          /\ Val(fetched[j]).start >= nextRun - CHECK_INTERVAL


-----------------------------------------------------------------------------
(* Properties of fmt_gold and _parse_price together, checked under SpecGold *)

\* C39: for every integer n > 0, _parse_price(fmt_gold(n)) = n: once the
\* text fmt_gold made of n has been parsed, the result is n.
C39_RoundTrip ==
    \A n \in Golds :
        (parse.done /\ parse.text = fmt_gold(n)) => parse.out = Some(n)

\* an amount with two separators in its text has been parsed
C39_Witness ==
    /\ parse.done
    /\ parse.text = <<"1", ".", "0", "0", "0", ".", "0", "0", "1">>
    /\ parse.out = Some(1000001)

====
